---- MODULE Spec2Model ----
(***************************************************************************)
(* A model of the NCCL bootstrap control plane (src/src/bootstrap.cc):     *)
(* bootstrapNetInit, the root rendezvous thread, bootstrapInit, the ring   *)
(* AllGather, the tagged point-to-point Send/Recv with its unexpected-     *)
(* connection queue, the dissemination Barrier, IntraNodeAllGather and     *)
(* IntraNodeBroadcast, bootstrapSplit, and Close/Abort.                    *)
(*                                                                         *)
(* The TCP helper library (ncclSocketInit/Listen/Connect/Accept/Send/Recv/ *)
(* Close) is not part of bootstrap.cc.  It is modelled by its contract:    *)
(* a listening socket owns a FIFO backlog of pending connections, a        *)
(* connect to a listening address succeeds without waiting for the accept, *)
(* sends are buffered in a FIFO byte stream per connection, an accepted    *)
(* socket inherits the listener's abortFlag, and a blocking accept/recv on *)
(* a socket that carries an abortFlag returns once the flag is nonzero.    *)
(***************************************************************************)
EXTENDS Integers, Sequences, FiniteSets, TLC

\* ------------------------------------------------------------------ bounds

\* Largest communicator size explored (comm->nRanks ranges over 1..MaxRanks).
MaxRanks == 3
\* Most messages of a P2P scenario (each sent by one bootstrapSend call and
\* awaited by one bootstrapRecv call).
MaxSends == 3
\* Most bootstrapAbort calls made on one bootstrapState.
MaxAborts == 2
\* Most messages of the P2P traffic that precedes a bootstrapClose.
MaxPending == 2
\* Most bootstrapRecv calls for messages nobody sends, in the abort scenarios.
MaxWaiting == 1
\* Threads of the process that call bootstrapNetInit, and calls per thread.
MaxThreads == 2
MaxCalls == 2

\* ------------------------------------------------------------------ state

VARIABLES
  nranks,                 \* comm->nRanks, the same on every rank
  pc,                     \* [rank -> position of the rank's thread]
  loc,                    \* [rank -> locals of the running operation]
  result,                 \* [rank -> ncclResult_t of the last returned call]
  abortFlag,              \* [rank -> *comm->abortFlag]
  listenSock,             \* [rank -> state->listenSock]
  listenSockRoot,         \* [rank -> bootstrapInit's local listenSockRoot]
  ringSendSocket,         \* [rank -> state->ringSendSocket]
  ringRecvSocket,         \* [rank -> state->ringRecvSocket]
  peerCommAddresses,      \* [rank -> state->peerCommAddresses]
  peerProxyAddresses,     \* [rank -> state->peerProxyAddresses]
  unexpectedConnections,  \* [rank -> state->unexpectedConnections]
  backlog,                \* [listening address -> FIFO of pending connections]
  chan,                   \* [connection -> FIFO of frames in flight]
  root,                   \* locals of the bootstrapRoot thread
  allData,                \* [rank -> the caller's AllGather buffer]
  mem,                    \* [rank -> number of free() calls per allocation]
  log,                    \* history: what was sent, delivered, entered
  net,                    \* the bootstrapNet* statics and the threads in bootstrapNetInit
  child                   \* [rank -> the bootstrapState bootstrapSplit builds for it]

vars == << nranks, pc, loc, result, abortFlag, listenSock, listenSockRoot,
           ringSendSocket, ringRecvSocket, peerCommAddresses,
           peerProxyAddresses, unexpectedConnections, backlog, chan, root,
           allData, mem, log, net, child >>

\* The variables of the communicator the ranks boot and use.
commVars == << nranks, pc, loc, result, abortFlag, listenSock, listenSockRoot,
               ringSendSocket, ringRecvSocket, peerCommAddresses,
               peerProxyAddresses, unexpectedConnections, backlog, chan, root,
               allData, mem, log >>

Ranks == 0 .. nranks - 1

\* ------------------------------------------------------------- addresses

\* union ncclSocketAddress values.  A calloc'ed slot is all zero bytes.
ZeroAddr == << "zero", 0 >>
\* handle->addr: where bootstrapCreateRoot listens.
HandleAddr == << "handle", 0 >>
\* The address ncclSocketGetAddr reports for rank r's state->listenSock.
CommAddr(r) == << "comm", r >>
\* The address of rank r's temporary listenSockRoot.
RootCbAddr(r) == << "rootcb", r >>
\* The address of rank r's proxy listening socket.
ProxyAddr(r) == << "proxy", r >>

\* A table that was never allocated (a NULL pointer).
NullTable == << >>
\* ncclCalloc(&table, n): n zeroed addresses, indexed 0..n-1.
Calloc(n) == [i \in 0 .. n - 1 |-> ZeroAddr]

\* ---------------------------------------------------------------- sizes

\* sizeof() of the types bootstrap.cc puts on the wire (LP64 Linux ABI).
Sizeof(t) ==
  CASE t = "int" -> 4
    [] t = "addr" -> 28
    [] t = "info" -> 64

\* ----------------------------------------------------- socket helper model

\* Connections are named by who opened them.
NoConn == << "none", 0 >>

\* A zero-initialised struct ncclSocket.
ZeroSock == [st |-> "zero", addr |-> ZeroAddr, conn |-> NoConn,
             flag |-> FALSE, closes |-> 0]

\* ncclSocketInit + ncclSocketListen: a listener bound to addr; flag tells
\* whether an abortFlag pointer was handed to ncclSocketInit.
ListenSocket(addr, flag) ==
  [st |-> "listen", addr |-> addr, conn |-> NoConn, flag |-> flag, closes |-> 0]

\* ncclSocketInit(addr) + ncclSocketConnect: connection c to addr.
ConnectedSocket(addr, c, flag) ==
  [st |-> "conn", addr |-> addr, conn |-> c, flag |-> flag, closes |-> 0]

\* ncclSocketAccept(sock, listener): the accepted socket is a copy of the
\* listener (abortFlag included) bound to the accepted connection c.
AcceptedSocket(listener, c) ==
  [st |-> "conn", addr |-> listener.addr, conn |-> c,
   flag |-> listener.flag, closes |-> 0]

\* ncclSocketClose.
ClosedSocket(s) == [s EXCEPT !.st = "closed", !.closes = @ + 1]

\* A blocking wait on socket s of rank r is cut short by the abort flag.
Aborting(r, s) == s.flag /\ abortFlag[r] # 0

\* The backlog after a connect of connection c to a listening address.
Connect(bl, addr, c) == [bl EXCEPT ![addr] = Append(@, c)]

\* The backlog after the listener at addr took its oldest connection.
Accepted(bl, addr) == [bl EXCEPT ![addr] = Tail(@)]

\* The backlog after the listener at addr was closed.
Unlisten(bl, addr) == [a \in DOMAIN bl \ {addr} |-> bl[a]]

\* The connections still pending at the listener at addr.
Pending(bl, addr) ==
  IF addr \in DOMAIN bl THEN {bl[addr][k] : k \in 1 .. Len(bl[addr])} ELSE {}

\* The channels after the listener at addr was closed: what was sent on a
\* connection nobody accepted is lost.
Unsent(ch, bl, addr) == [x \in DOMAIN ch \ Pending(bl, addr) |-> ch[x]]

\* The channels after connection c was closed by its reader.
Drop(ch, c) == [x \in DOMAIN ch \ {c} |-> ch[x]]

\* bootstrapNetSend(sock, data, size): a length prefix, then the payload.
Frame(data, size) == [size |-> size, data |-> data]
bootstrapNetSend(ch, c, data, size) ==
  [ch EXCEPT ![c] = Append(@, Frame(data, size))]

\* bootstrapNetRecv(sock, data, size) on the oldest frame f of a connection:
\* a frame longer than the buffer is a truncation error.
bootstrapNetRecvAny(f, size) == TRUE
bootstrapNetRecvOk(f, size) == ~(f.size > size)

\* The number of payload bytes a successful bootstrapNetRecv reads.
BytesRead(f, size) == IF f.size < size THEN f.size ELSE size

\* A frame is waiting on connection c.
Readable(c) == c \in DOMAIN chan /\ chan[c] # << >>

\* A connection with a frame to read is waiting at the listener at addr.
Acceptable(addr) ==
  /\ addr \in DOMAIN backlog
  /\ backlog[addr] # << >>
  /\ Readable(Head(backlog[addr]))

\* ------------------------------------------------------- thread-local state

\* The locals of a thread that runs no bootstrap call.
NoLocals ==
  [op |-> "none", which |-> "none", i |-> 0, peer |-> 0, tag |-> 0, size |-> 0,
   data |-> 0]
\* No allocation of the rank's bootstrapState has been freed.
NoFrees == [state |-> 0, comm |-> 0, proxy |-> 0, unex |-> 0]
\* The history before anything happened.
EmptyLog(n) ==
  [ringSends |-> [r \in 0 .. n - 1 |-> 0], ringRecvs |-> [r \in 0 .. n - 1 |-> 0],
   contrib |-> [r \in 0 .. n - 1 |-> 0],
   sends |-> [r \in 0 .. n - 1 |-> 0], sent |-> {}, recvs |-> {},
   got |-> {}, failed |-> {}, twice |-> {}, budget |-> MaxSends, stray |-> 0,
   group |-> << >>, bcastRoot |-> 0, split |-> << >>, splitShare |-> FALSE,
   scenario |-> "none",
   entered |-> {}, again |-> {}, aborts |-> [r \in 0 .. n - 1 |-> 0]]

\* --------------------------------------------------------- bootstrapNetInit

\* The threads of the process that call bootstrapNetInit.
Threads == 0 .. MaxThreads - 1

\* What ncclFindInterfaces / ncclFindInterfaceMatchSubnet may select: a name
\* and its address.
Interfaces == {<< "eth0", 1 >>, << "ib0", 2 >>}
\* The results of the three failing returns.
NetFailures == {"ncclInvalidArgument", "ncclSystemError", "ncclInternalError"}

\* The statics bootstrapNetIfName, bootstrapNetIfAddr, bootstrapNetInitDone
\* and bootstrapNetLock (holder -1: unlocked) before any call; each thread's
\* position, its number of calls, the result of its last call; synced: the
\* threads that locked the mutex after bootstrapNetInitDone was written;
\* call: whether the thread's current call began after a successful call
\* had returned, whether it locked, whether it selected; selected: the
\* number of selections that succeeded; succeeded: a call returned
\* ncclSuccess.
NetStart ==
  [ifName |-> "", ifAddr |-> 0, done |-> 0, holder |-> -1,
   pc |-> [t \in Threads |-> "idle"],
   calls |-> [t \in Threads |-> 0],
   res |-> [t \in Threads |-> "none"],
   synced |-> {},
   call |-> [t \in Threads |-> [after |-> FALSE, locked |-> FALSE, ran |-> FALSE]],
   selected |-> 0, succeeded |-> FALSE]

\* The first test of bootstrapNetInitDone is made without the mutex: a
\* thread that has not locked the mutex since the flag was written may
\* still read the old value.
RacyRead(t) == IF net.done = 1 /\ t \notin net.synced THEN {0, 1} ELSE {net.done}

\* The test made with the mutex held.
NetRecheckNever(done) == TRUE
NetRecheck(done) == done = 0

\* A call returns res; the mutex stays as it is.
NetReturn(nt, t, res) ==
  [nt EXCEPT !.pc[t] = "idle", !.calls[t] = @ + 1, !.res[t] = res,
             !.succeeded = @ \/ res = "ncclSuccess"]

\* bootstrapNetInit is called by thread t: the unlocked test.
NetCall(t) ==
  /\ net.pc[t] = "idle"
  /\ net.calls[t] < MaxCalls
  /\ \E v \in RacyRead(t) :
       LET nt == [net EXCEPT !.call[t] = [after |-> net.succeeded, locked |-> FALSE,
                                           ran |-> FALSE]]
       IN net' = IF v = 0 THEN [nt EXCEPT !.pc[t] = "lock"]
                          ELSE NetReturn(nt, t, "ncclSuccess")
  /\ UNCHANGED << commVars, child >>

\* pthread_mutex_lock returns.  The mutex is a default one: locking it
\* again by the thread that holds it is undefined, the call may never
\* return or may return.
NetLock(t) ==
  /\ net.pc[t] = "lock"
  /\ net.holder \in {-1, t}
  /\ net' = [net EXCEPT !.holder = t, !.pc[t] = "locked", !.call[t].locked = TRUE,
                        !.synced = IF net.done = 1 THEN @ \cup {t} ELSE @]
  /\ UNCHANGED << commVars, child >>

\* The second test, and the selection when the flag is still 0: it fills
\* bootstrapNetIfName and bootstrapNetIfAddr, or fails, and a failure
\* returns at once.
NetSelect(t) ==
  /\ net.pc[t] = "locked"
  /\ IF NetRecheck(net.done)
       THEN \/ \E f \in Interfaces :
                 net' = [net EXCEPT !.ifName = f[1], !.ifAddr = f[2],
                                    !.selected = @ + 1, !.call[t].ran = TRUE,
                                    !.pc[t] = "selected"]
            \/ \E e \in NetFailures :
                 net' = NetReturn([net EXCEPT !.call[t].ran = TRUE], t, e)
       ELSE net' = [net EXCEPT !.pc[t] = "unlock"]
  /\ UNCHANGED << commVars, child >>

\* bootstrapNetInitDone = 1.
NetSetDone(t) ==
  /\ net.pc[t] = "selected"
  /\ net' = [net EXCEPT !.done = 1, !.pc[t] = "unlock", !.synced = {t}]
  /\ UNCHANGED << commVars, child >>

\* pthread_mutex_unlock and return ncclSuccess.
NetUnlock(t) ==
  /\ net.pc[t] = "unlock"
  /\ net' = NetReturn([net EXCEPT !.holder = -1], t, "ncclSuccess")
  /\ UNCHANGED << commVars, child >>

\* ------------------------------------------------------------ bootstrapRoot

\* struct extInfo, as bootstrapInit fills it.
ExtInfo(r, n) ==
  [rank |-> r, nranks |-> n,
   extAddressListenRoot |-> RootCbAddr(r), extAddressListen |-> CommAddr(r)]

\* The root thread when bootstrapCreateRoot has started it.
RootStart ==
  [pc |-> "collect", nranks |-> 0, c |-> 0, r |-> 0,
   rankAddresses |-> NullTable, rankAddressesRoot |-> NullTable,
   listenClosed |-> 0, freed |-> 0, sent |-> << >>, warn |-> "none"]

\* The label out: close and free the listening socket, free the tables.
RootOutLeaks(rt) == [rt EXCEPT !.pc = "done"]
RootOut(rt) ==
  [rt EXCEPT !.pc = "done", !.listenClosed = @ + 1, !.freed = @ + 1]

\* The memcmp against zero: the slot of the rank that checks in is filled.
NeverCheckedIn(addrsRoot, info) == FALSE
AlreadyCheckedIn(addrsRoot, info) == addrsRoot[info.rank] # ZeroAddr

\* The comparison of the rank counts: this check-in reports another one.
Mismatch(n, info) == n # info.nranks

\* The condition of the do-while loop, on the count after ++c.
MoreToCollectButOne(c, n) == c + 1 < n
MoreToCollect(c, n) == c < n

\* One iteration of the do-while loop: accept a rank, receive its extInfo,
\* check it against the rank count and the slot (with a WARN when either
\* check fails), store it.
RootAccept ==
  /\ root.pc = "collect"
  /\ Acceptable(HandleAddr)
  /\ LET c == Head(backlog[HandleAddr])
         f == Head(chan[c])
         info == f.data
         first == root.c = 0
         n == IF first THEN info.nranks ELSE root.nranks
         addrs == IF first THEN Calloc(n) ELSE root.rankAddresses
         addrsRoot == IF first THEN Calloc(n) ELSE root.rankAddressesRoot
         rt == [root EXCEPT !.nranks = n, !.rankAddresses = addrs,
                            !.rankAddressesRoot = addrsRoot]
     IN /\ chan' = Drop(chan, c)
        /\ IF ~bootstrapNetRecvOk(f, Sizeof("info"))
             THEN /\ root' = RootOut(root)
                  /\ backlog' = Unlisten(backlog, HandleAddr)
             ELSE IF Mismatch(n, info)
             THEN /\ root' = [RootOut(rt) EXCEPT !.warn = "mismatch"]
                  /\ backlog' = Unlisten(backlog, HandleAddr)
             ELSE IF AlreadyCheckedIn(addrsRoot, info)
             THEN /\ root' = [RootOut(rt) EXCEPT !.warn = "already"]
                  /\ backlog' = Unlisten(backlog, HandleAddr)
             ELSE /\ root' =
                       [rt EXCEPT
                          !.rankAddressesRoot[info.rank] = info.extAddressListenRoot,
                          !.rankAddresses[info.rank] = info.extAddressListen,
                          !.c = @ + 1,
                          !.pc = IF MoreToCollect(root.c + 1, n)
                                   THEN "collect" ELSE "distribute"]
                  /\ backlog' = Accepted(backlog, HandleAddr)
  /\ UNCHANGED << net, child, nranks, pc, loc, result, abortFlag, listenSock, listenSockRoot,
                  ringSendSocket, ringRecvSocket, peerCommAddresses,
                  peerProxyAddresses, unexpectedConnections, allData, mem, log >>

\* The connection the root opens to call rank r back.
RootConn(r) == << "root", r >>

\* The address the root sends to rank r: its ring successor's.
RootNextIsSelf(r, n) == r
RootNextIsPrev(r, n) == (r - 1 + n) % n
RootNext(r, n) == (r + 1) % n

\* One iteration of the for loop: connect to rank r's callback listener and
\* send it the comm address of rank (r+1) % nranks; after the last one, out.
RootSend ==
  /\ root.pc = "distribute"
  /\ LET r == root.r
         to == root.rankAddressesRoot[r]
         next == RootNext(r, root.nranks)
         c == RootConn(r)
         last == r + 1 >= root.nranks
     IN IF to \notin DOMAIN backlog
          THEN /\ root' = RootOut(root)
               /\ backlog' = Unlisten(backlog, HandleAddr)
               /\ chan' = chan
          ELSE /\ chan' = (c :> << Frame(root.rankAddresses[next], Sizeof("addr")) >>) @@ chan
               /\ backlog' = IF last THEN Unlisten(Connect(backlog, to, c), HandleAddr)
                                     ELSE Connect(backlog, to, c)
               /\ root' = LET rt == [root EXCEPT !.r = r + 1,
                                        !.sent = Append(@, << r, root.rankAddresses[next] >>)]
                          IN IF last THEN RootOut(rt) ELSE rt
  /\ UNCHANGED << net, child, nranks, pc, loc, result, abortFlag, listenSock, listenSockRoot,
                  ringSendSocket, ringRecvSocket, peerCommAddresses,
                  peerProxyAddresses, unexpectedConnections, allData, mem, log >>

\* ------------------------------------------------------ bootstrapAllGather

\* The buffer the running AllGather of rank r works on.
AgBuffer(r) ==
  CASE loc[r].which = "comm" -> peerCommAddresses[r]
    [] loc[r].which = "proxy" -> peerProxyAddresses[r]
    [] OTHER -> allData[r]

\* The size argument of the running AllGather.
AgSize(r) == IF loc[r].which = "user" THEN Sizeof("int") ELSE Sizeof("addr")

\* The slices of step i on rank r.
SendSliceOwn(r, i, n) == r
SendSlice(r, i, n) == (r - i + n) % n
RecvSliceNoStep(r, i, n) == (r - i + n) % n
RecvSlice(r, i, n) == (r - i - 1 + n) % n

\* Where the thread goes when the AllGather on buffer which returns ncclSuccess.
AgReturn(which) ==
  CASE which = "comm" -> "init_proxy"
    [] which = "proxy" -> "ready"
    [] OTHER -> "ready"

\* The position after the loop test i < nranks-1.
AgLoopRecvFirst(i, n, which) == IF i < n - 1 THEN "ag_recv" ELSE AgReturn(which)
AgLoop(i, n, which) == IF i < n - 1 THEN "ag_send" ELSE AgReturn(which)

\* Send slice to the right.
AllGatherSend(r) ==
  /\ pc[r] = "ag_send"
  /\ LET s == SendSlice(r, loc[r].i, nranks)
     IN chan' = bootstrapNetSend(chan, ringSendSocket[r].conn, AgBuffer(r)[s], AgSize(r))
  /\ pc' = [pc EXCEPT ![r] = "ag_recv"]
  /\ log' = [log EXCEPT !.ringSends[r] = @ + 1]
  /\ UNCHANGED << net, child, nranks, loc, result, abortFlag, listenSock, listenSockRoot,
                  ringSendSocket, ringRecvSocket, peerCommAddresses,
                  peerProxyAddresses, unexpectedConnections, backlog, root,
                  allData, mem >>

\* Recv slice from the left, then the loop's i++ and test.
AllGatherRecv(r) ==
  /\ pc[r] = "ag_recv"
  /\ Readable(ringRecvSocket[r].conn)
  /\ LET c == ringRecvSocket[r].conn
         f == Head(chan[c])
         s == RecvSlice(r, loc[r].i, nranks)
         w == loc[r].which
         ok == bootstrapNetRecvOk(f, AgSize(r))
     IN /\ chan' = [chan EXCEPT ![c] = Tail(@)]
        /\ peerCommAddresses' =
             IF ok /\ w = "comm" THEN [peerCommAddresses EXCEPT ![r][s] = f.data]
                                 ELSE peerCommAddresses
        /\ peerProxyAddresses' =
             IF ok /\ w = "proxy" THEN [peerProxyAddresses EXCEPT ![r][s] = f.data]
                                  ELSE peerProxyAddresses
        /\ allData' =
             IF ok /\ w = "user" THEN [allData EXCEPT ![r][s] = f.data] ELSE allData
        /\ IF ok
             THEN /\ pc' = [pc EXCEPT ![r] = AgLoop(loc[r].i + 1, nranks, w)]
                  /\ loc' = IF pc'[r] = "ready" THEN [loc EXCEPT ![r] = NoLocals]
                                                ELSE [loc EXCEPT ![r].i = @ + 1]
                  /\ result' = IF pc'[r] = "ready"
                                 THEN [result EXCEPT ![r] = "ncclSuccess"] ELSE result
             ELSE /\ pc' = [pc EXCEPT ![r] = IF w = "user" THEN "ready" ELSE "failed"]
                  /\ loc' = [loc EXCEPT ![r] = NoLocals]
                  /\ result' = [result EXCEPT ![r] = "ncclInternalError"]
  /\ log' = [log EXCEPT !.ringRecvs[r] = @ + 1]
  /\ UNCHANGED << net, child, nranks, abortFlag, listenSock, listenSockRoot, ringSendSocket,
                  ringRecvSocket, unexpectedConnections, backlog, root, mem >>

\* ------------------------------------------------------------ bootstrapInit

\* The connection rank r opens to the root to check in.
CheckInConn(r) == << "checkin", r >>
\* The connection behind rank r's ringSendSocket.
RingConn(r) == << "ring", r >>

\* Whether bootstrapInit hands comm->abortFlag to the ncclSocketInit of
\* state->listenSock and of listenSockRoot.
ListenSockNoFlag == FALSE
ListenSockFlag == TRUE
ListenSockRootFlag == TRUE

\* From the entry to the check-in: allocate the state, listen on listenSock
\* and listenSockRoot, connect to the root, send extInfo, close.
InitCheckIn(r) ==
  /\ pc[r] = "start"
  /\ HandleAddr \in DOMAIN backlog
  /\ listenSock' = [listenSock EXCEPT ![r] = ListenSocket(CommAddr(r), ListenSockFlag)]
  /\ listenSockRoot' =
       [listenSockRoot EXCEPT ![r] = ListenSocket(RootCbAddr(r), ListenSockRootFlag)]
  /\ backlog' = Connect((CommAddr(r) :> << >>) @@ (RootCbAddr(r) :> << >>) @@ backlog,
                        HandleAddr, CheckInConn(r))
  /\ chan' = (CheckInConn(r) :> << Frame(ExtInfo(r, nranks), Sizeof("info")) >>) @@ chan
  /\ pc' = [pc EXCEPT ![r] = "init_accept_root"]
  /\ loc' = [loc EXCEPT ![r].op = "init"]
  /\ UNCHANGED << net, child, nranks, result, abortFlag, ringSendSocket, ringRecvSocket,
                  peerCommAddresses, peerProxyAddresses, unexpectedConnections,
                  root, allData, mem, log >>

\* Accept the root's callback, receive nextAddr, close the accepted socket
\* and listenSockRoot, connect ringSendSocket to nextAddr.
InitRecvNext(r) ==
  /\ pc[r] = "init_accept_root"
  /\ Acceptable(RootCbAddr(r))
  /\ LET c == Head(backlog[RootCbAddr(r)])
         f == Head(chan[c])
         nextAddr == f.data
         ok == bootstrapNetRecvOk(f, Sizeof("addr")) /\ nextAddr \in DOMAIN backlog
     IN /\ listenSockRoot' = [listenSockRoot EXCEPT ![r] = ClosedSocket(@)]
        /\ IF ok
             THEN /\ ringSendSocket' =
                       [ringSendSocket EXCEPT ![r] = ConnectedSocket(nextAddr, RingConn(r), TRUE)]
                  /\ backlog' = Connect(Unlisten(backlog, RootCbAddr(r)), nextAddr, RingConn(r))
                  /\ chan' = (RingConn(r) :> << >>) @@ Drop(chan, c)
                  /\ pc' = [pc EXCEPT ![r] = "init_accept_ring"]
                  /\ result' = result
             ELSE /\ ringSendSocket' = ringSendSocket
                  /\ backlog' = Unlisten(backlog, RootCbAddr(r))
                  /\ chan' = Drop(chan, c)
                  /\ pc' = [pc EXCEPT ![r] = "failed"]
                  /\ result' = [result EXCEPT ![r] = "ncclInternalError"]
  /\ UNCHANGED << net, child, nranks, loc, abortFlag, listenSock, ringRecvSocket,
                  peerCommAddresses, peerProxyAddresses, unexpectedConnections,
                  root, allData, mem, log >>

\* Accept the ring predecessor into ringRecvSocket, allocate
\* peerCommAddresses, store the own listenSock address at index rank and
\* enter the first AllGather.
InitAcceptRing(r) ==
  /\ pc[r] = "init_accept_ring"
  /\ CommAddr(r) \in DOMAIN backlog
  /\ backlog[CommAddr(r)] # << >>
  /\ ringRecvSocket' =
       [ringRecvSocket EXCEPT ![r] = AcceptedSocket(listenSock[r], Head(backlog[CommAddr(r)]))]
  /\ backlog' = Accepted(backlog, CommAddr(r))
  /\ peerCommAddresses' =
       [peerCommAddresses EXCEPT ![r] = [Calloc(nranks) EXCEPT ![r] = listenSock[r].addr]]
  /\ loc' = [loc EXCEPT ![r].which = "comm", ![r].i = 0]
  /\ pc' = [pc EXCEPT ![r] = AgLoop(0, nranks, "comm")]
  /\ UNCHANGED << net, child, nranks, result, abortFlag, listenSock, listenSockRoot,
                  ringSendSocket, peerProxyAddresses, unexpectedConnections,
                  chan, root, allData, mem, log >>

\* Allocate peerProxyAddresses, listen on the proxy socket, store its address
\* at index rank and enter the second AllGather; with a single rank the
\* AllGather is empty and bootstrapInit returns.
InitProxy(r) ==
  /\ pc[r] = "init_proxy"
  /\ peerProxyAddresses' =
       [peerProxyAddresses EXCEPT ![r] = [Calloc(nranks) EXCEPT ![r] = ProxyAddr(r)]]
  /\ backlog' = (ProxyAddr(r) :> << >>) @@ backlog
  /\ pc' = [pc EXCEPT ![r] = AgLoop(0, nranks, "proxy")]
  /\ loc' = IF pc'[r] = "ready" THEN [loc EXCEPT ![r] = NoLocals]
                                ELSE [loc EXCEPT ![r].which = "proxy", ![r].i = 0]
  /\ result' = IF pc'[r] = "ready" THEN [result EXCEPT ![r] = "ncclSuccess"] ELSE result
  /\ UNCHANGED << net, child, nranks, abortFlag, listenSock, listenSockRoot, ringSendSocket,
                  ringRecvSocket, peerCommAddresses, unexpectedConnections,
                  chan, root, allData, mem, log >>

\* The socket a blocked thread of rank r is waiting on, if it is blocked.
BlockedOn(r) ==
  CASE pc[r] = "init_accept_root" -> listenSockRoot[r]
    [] pc[r] = "init_accept_ring" -> listenSock[r]
    [] pc[r] = "ag_recv" -> ringRecvSocket[r]
    [] pc[r] = "recv_accept" -> listenSock[r]
    [] OTHER -> ZeroSock

\* The abortFlag became nonzero while the thread waits in accept or recv:
\* the socket call fails and NCCLCHECK returns the error to the caller.
AbortReturn(r) ==
  /\ pc[r] \in {"init_accept_root", "init_accept_ring", "ag_recv", "recv_accept"}
  /\ Aborting(r, BlockedOn(r))
  /\ pc' = [pc EXCEPT ![r] = IF loc[r].op = "init" THEN "failed" ELSE "ready"]
  /\ result' = [result EXCEPT ![r] = "ncclAbortError"]
  /\ loc' = [loc EXCEPT ![r] = NoLocals]
  /\ UNCHANGED << net, child, nranks, abortFlag, listenSock, listenSockRoot,
                  ringSendSocket, ringRecvSocket, peerCommAddresses,
                  peerProxyAddresses, unexpectedConnections, backlog, chan, root,
                  allData, mem, log >>

\* The application sets the communicator's abort flag.
SetAbort(r) ==
  /\ abortFlag[r] = 0
  /\ abortFlag' = [abortFlag EXCEPT ![r] = 1]
  /\ UNCHANGED << net, child, nranks, pc, loc, result, listenSock, listenSockRoot,
                  ringSendSocket, ringRecvSocket, peerCommAddresses,
                  peerProxyAddresses, unexpectedConnections, backlog, chan, root,
                  allData, mem, log >>

\* The bootstrapState of a rank that bootstrapSplit has not built.
NoChild ==
  [rank |-> 0, nranks |-> 0,
   listenSock |-> ZeroSock, ringSendSocket |-> ZeroSock, ringRecvSocket |-> ZeroSock,
   peerCommAddresses |-> NullTable, peerProxyAddresses |-> NullTable]

\* ------------------------------------------- specification: bootstrapInit

\* Every rank is about to call bootstrapInit with the handle of a root that
\* bootstrapCreateRoot has started.
Unbooted ==
  /\ nranks \in 1 .. MaxRanks
  /\ pc = [r \in Ranks |-> "start"]
  /\ loc = [r \in Ranks |-> NoLocals]
  /\ result = [r \in Ranks |-> "none"]
  /\ abortFlag = [r \in Ranks |-> 0]
  /\ listenSock = [r \in Ranks |-> ZeroSock]
  /\ listenSockRoot = [r \in Ranks |-> ZeroSock]
  /\ ringSendSocket = [r \in Ranks |-> ZeroSock]
  /\ ringRecvSocket = [r \in Ranks |-> ZeroSock]
  /\ peerCommAddresses = [r \in Ranks |-> NullTable]
  /\ peerProxyAddresses = [r \in Ranks |-> NullTable]
  /\ unexpectedConnections = [r \in Ranks |-> << >>]
  /\ backlog = (HandleAddr :> << >>)
  /\ chan = << >>
  /\ root = RootStart
  /\ allData = [r \in Ranks |-> << >>]
  /\ mem = [r \in Ranks |-> NoFrees]
  /\ net = NetStart
  /\ child = [r \in Ranks |-> NoChild]

InitBoot ==
  /\ Unbooted
  /\ log = EmptyLog(nranks)

NextBoot ==
  \/ RootAccept
  \/ RootSend
  \/ \E r \in Ranks : InitCheckIn(r)
  \/ \E r \in Ranks : InitRecvNext(r)
  \/ \E r \in Ranks : InitAcceptRing(r)
  \/ \E r \in Ranks : InitProxy(r)
  \/ \E r \in Ranks : AllGatherSend(r)
  \/ \E r \in Ranks : AllGatherRecv(r)
  \/ \E r \in Ranks : AbortReturn(r)
  \/ \E r \in Ranks : SetAbort(r)

SpecBoot == InitBoot /\ [][NextBoot]_vars

\* ------------------- specification: bootstrapInit, nobody aborts

\* The next step of the thread of rank r that calls bootstrapInit.
InitSteps(r) ==
  \/ InitCheckIn(r)
  \/ InitRecvNext(r)
  \/ InitAcceptRing(r)
  \/ InitProxy(r)
  \/ AllGatherSend(r)
  \/ AllGatherRecv(r)

NextInit ==
  \/ RootAccept
  \/ RootSend
  \/ \E r \in Ranks : InitSteps(r)

SpecInit == InitBoot /\ [][NextInit]_vars

\* The root thread and the thread of every rank keep running: a step that
\* stays possible is taken.
FairSpecInit ==
  /\ SpecInit
  /\ WF_vars(RootAccept \/ RootSend)
  /\ \A r \in 0 .. MaxRanks - 1 : WF_vars(r \in Ranks /\ InitSteps(r))

\* ------------------- specification: bootstrapInit with a stray check-in

\* The extInfo of one more process that calls bootstrapInit with the same
\* handle, as rank d of n: its own two listening addresses.
StrayInfo(d, n) ==
  [rank |-> d, nranks |-> n,
   extAddressListenRoot |-> RootCbAddr(-1), extAddressListen |-> CommAddr(-1)]

\* The connection of that check-in.
StrayConn == << "checkin", -1 >>

\* bootstrapInit of the extra process, up to its check-in: it listens on
\* its two sockets and sends its extInfo to the root.  Its rank is one a
\* member of the communicator has too, or its nranks is another one.
StrayCheckIn ==
  /\ log.stray = 0
  /\ HandleAddr \in DOMAIN backlog
  /\ \E n \in 1 .. MaxRanks : \E d \in 0 .. n - 1 :
       /\ backlog' = Connect((CommAddr(-1) :> << >>) @@ (RootCbAddr(-1) :> << >>) @@ backlog,
                             HandleAddr, StrayConn)
       /\ chan' = (StrayConn :> << Frame(StrayInfo(d, n), Sizeof("info")) >>) @@ chan
  /\ log' = [log EXCEPT !.stray = 1]
  /\ UNCHANGED << net, child, nranks, pc, loc, result, abortFlag, listenSock, listenSockRoot,
                  ringSendSocket, ringRecvSocket, peerCommAddresses,
                  peerProxyAddresses, unexpectedConnections, root, allData, mem >>

NextStray ==
  \/ RootAccept
  \/ RootSend
  \/ StrayCheckIn
  \/ \E r \in Ranks : InitCheckIn(r)
  \/ \E r \in Ranks : InitRecvNext(r)
  \/ \E r \in Ranks : InitAcceptRing(r)
  \/ \E r \in Ranks : InitProxy(r)
  \/ \E r \in Ranks : AllGatherSend(r)
  \/ \E r \in Ranks : AllGatherRecv(r)

SpecStray == InitBoot /\ [][NextStray]_vars

\* ------------------------------------------ the state bootstrapInit leaves

\* The root thread after it served n ranks and went through out.
RootFinished(n) ==
  [pc |-> "done", nranks |-> n, c |-> n, r |-> n,
   rankAddresses |-> [i \in 0 .. n - 1 |-> CommAddr(i)],
   rankAddressesRoot |-> [i \in 0 .. n - 1 |-> RootCbAddr(i)],
   listenClosed |-> 1, freed |-> 1,
   sent |-> [k \in 1 .. n |-> << k - 1, CommAddr(k % n) >>], warn |-> "none"]

\* What bootstrapInit leaves behind on n ranks when all of them succeeded:
\* the listeners, the ring, the two address tables, all channels drained.
Booted(n) ==
  /\ nranks = n
  /\ pc = [r \in 0 .. n - 1 |-> "ready"]
  /\ loc = [r \in 0 .. n - 1 |-> NoLocals]
  /\ result = [r \in 0 .. n - 1 |-> "ncclSuccess"]
  /\ listenSock = [r \in 0 .. n - 1 |-> ListenSocket(CommAddr(r), ListenSockFlag)]
  /\ listenSockRoot =
       [r \in 0 .. n - 1 |-> ClosedSocket(ListenSocket(RootCbAddr(r), ListenSockRootFlag))]
  /\ ringSendSocket =
       [r \in 0 .. n - 1 |-> ConnectedSocket(CommAddr((r + 1) % n), RingConn(r), TRUE)]
  /\ ringRecvSocket =
       [r \in 0 .. n - 1 |->
          AcceptedSocket(ListenSocket(CommAddr(r), ListenSockFlag), RingConn((r - 1 + n) % n))]
  /\ peerCommAddresses = [r \in 0 .. n - 1 |-> [i \in 0 .. n - 1 |-> CommAddr(i)]]
  /\ peerProxyAddresses = [r \in 0 .. n - 1 |-> [i \in 0 .. n - 1 |-> ProxyAddr(i)]]
  /\ unexpectedConnections = [r \in 0 .. n - 1 |-> << >>]
  /\ backlog = [a \in {CommAddr(r) : r \in 0 .. n - 1} \cup
                      {ProxyAddr(r) : r \in 0 .. n - 1} |-> << >>]
  /\ chan = [c \in {RingConn(r) : r \in 0 .. n - 1} |-> << >>]
  /\ root = RootFinished(n)
  /\ allData = [r \in 0 .. n - 1 |-> << >>]
  /\ mem = [r \in 0 .. n - 1 |-> NoFrees]
  /\ net = NetStart
  /\ child = [r \in 0 .. n - 1 |-> NoChild]

\* ------------------------------------------- bootstrapSend / bootstrapRecv

\* The connection behind the k-th bootstrapSend of rank r.
P2PConn(r, k) == << "p2p", r, k >>

\* ncclSocketConnect of bootstrapSend succeeds when the peer still listens.
SendConnects(r, peer) == peerCommAddresses[r][peer] \in DOMAIN backlog

\* bootstrapSend(state, peer, tag, data, size) on rank r: a fresh connection
\* to peerCommAddresses[peer] carrying the own rank, the tag and the data,
\* each framed; the socket is closed on every path.
Send(r, peer, tag, data, size) ==
  LET addr == peerCommAddresses[r][peer]
      c == P2PConn(r, log.sends[r] + 1)
  IN IF SendConnects(r, peer)
       THEN /\ backlog' = Connect(backlog, addr, c)
            /\ chan' = (c :> << Frame(r, Sizeof("int")), Frame(tag, Sizeof("int")),
                                Frame(data, size) >>) @@ chan
            /\ log' = [log EXCEPT
                         !.sends[r] = @ + 1,
                         !.sent = @ \cup {[from |-> r, to |-> peer, tag |-> tag, data |-> data,
                                          size |-> size]}]
       ELSE /\ backlog' = backlog
            /\ chan' = chan
            /\ log' = log

SendResult(r, peer) ==
  IF SendConnects(r, peer) THEN "ncclSuccess" ELSE "ncclSystemError"

\* unexpectedDequeue: the position of the entry it unlinks (0: none found).
MatchesEvery(e, peer, tag) == TRUE
Matches(e, peer, tag) == e.peer = peer /\ e.tag = tag
LastMatch(q, peer, tag) ==
  IF \E k \in 1 .. Len(q) : Matches(q[k], peer, tag)
    THEN CHOOSE k \in 1 .. Len(q) :
           /\ Matches(q[k], peer, tag)
           /\ \A j \in k + 1 .. Len(q) : ~Matches(q[j], peer, tag)
    ELSE 0
unexpectedDequeue(q, peer, tag) ==
  IF \E k \in 1 .. Len(q) : Matches(q[k], peer, tag)
    THEN CHOOSE k \in 1 .. Len(q) :
           /\ Matches(q[k], peer, tag)
           /\ \A j \in 1 .. k - 1 : ~Matches(q[j], peer, tag)
    ELSE 0

\* The list after the entry at position k was unlinked.
Unlink(q, k) == SubSeq(q, 1, k - 1) \o SubSeq(q, k + 1, Len(q))

\* unexpectedEnqueue: the list after a new entry was linked.
unexpectedEnqueue(q, peer, tag, sock) ==
  Append(q, [peer |-> peer, tag |-> tag, sock |-> sock])

\* The dissemination barrier's partners in the round of mask m.
BarrierSrc(r, m, n) == (r - m + n) % n
BarrierDst(r, m, n) == (r + m) % n

\* The position of the thread after its bootstrapRecv returned ncclSuccess:
\* back in the caller, or in the next round of bootstrapBarrier.
AfterFirstRecv(lc) == "ready"
AfterRecv(lc) ==
  IF lc.op = "barrier" /\ 2 * lc.i < nranks THEN "bar_send"
  ELSE IF lc.op = "intra" THEN "intra_store"
  ELSE IF lc.op = "split" THEN "split_connect" ELSE "ready"

\* bootstrapRecv of rank r, running with the locals lc, returns res after
\* receiving the payload of frame f (res = ncclSuccess) or after a failed
\* call; the caller's NCCLCHECK passes an error on.  lg is the history up to
\* the return, parked tells whether the data came from an unexpected
\* connection.
RecvReturns(r, lc, lg, res, f, parked) ==
  LET data == f.data
      next == IF res = "ncclSuccess" THEN AfterRecv(lc) ELSE "ready"
  IN /\ pc' = [pc EXCEPT ![r] = next]
     /\ loc' = IF next = "ready"
                 THEN [loc EXCEPT ![r] = NoLocals]
                 ELSE [loc EXCEPT ![r] = [lc EXCEPT
                                            !.i = IF lc.op = "barrier" THEN 2 * @ ELSE @,
                                            !.data = data]]
     /\ result' = [result EXCEPT ![r] = IF next = "ready" THEN res ELSE @]
     /\ log' = IF res = "ncclSuccess"
                 THEN LET g == [at |-> r, peer |-> lc.peer, tag |-> lc.tag, data |-> data,
                                read |-> BytesRead(f, lc.size), parked |-> parked]
                      IN [lg EXCEPT !.got = @ \cup {g},
                                    !.twice = IF \E h \in lg.got : h.data = data
                                                THEN @ \cup {data} ELSE @]
                 ELSE [lg EXCEPT !.failed = @ \cup
                         {[at |-> r, peer |-> lc.peer, tag |-> lc.tag, res |-> res, data |-> data,
                           before |-> Cardinality({h \in lg.got : h.at = r})]}]

\* bootstrapRecv, first part: search the unexpected connections; an entry
\* found is unlinked, its data received from its socket, the socket closed;
\* otherwise the thread goes on to accept new connections.
Scan(r, lc, lg) ==
  LET q == unexpectedConnections[r]
      k == unexpectedDequeue(q, lc.peer, lc.tag)
  IN IF k # 0
       THEN LET c == q[k].sock.conn
                f == Head(chan[c])
            IN /\ unexpectedConnections' = [unexpectedConnections EXCEPT ![r] = Unlink(q, k)]
               /\ chan' = Drop(chan, c)
               /\ RecvReturns(r, lc, lg,
                              IF bootstrapNetRecvOk(f, lc.size)
                                THEN "ncclSuccess" ELSE "ncclInternalError", f,
                              TRUE)
       ELSE /\ pc' = [pc EXCEPT ![r] = "recv_accept"]
            /\ loc' = [loc EXCEPT ![r] = lc]
            /\ log' = lg
            /\ UNCHANGED << unexpectedConnections, chan, result >>

\* The bootstrapRecv call of a round of bootstrapBarrier.
RecvScan(r) ==
  /\ pc[r] = "recv_scan"
  /\ Scan(r, loc[r], log)
  /\ UNCHANGED << net, child, nranks, abortFlag, listenSock, listenSockRoot, ringSendSocket,
                  ringRecvSocket, peerCommAddresses, peerProxyAddresses, backlog,
                  root, allData, mem >>

\* bootstrapRecv, one iteration of while (1): accept a connection, receive
\* newPeer and newTag; on a match receive the data, close and return,
\* otherwise park the socket on the unexpected list and accept again.
RecvAccept(r) ==
  /\ pc[r] = "recv_accept"
  /\ listenSock[r].st = "listen"
  /\ Acceptable(listenSock[r].addr)
  /\ LET c == Head(backlog[listenSock[r].addr])
         newPeer == chan[c][1]
         newTag == chan[c][2]
         f == chan[c][3]
         sock == AcceptedSocket(listenSock[r], c)
     IN /\ backlog' = Accepted(backlog, listenSock[r].addr)
        /\ IF ~(bootstrapNetRecvOk(newPeer, Sizeof("int")) /\ bootstrapNetRecvOk(newTag, Sizeof("int")))
             THEN /\ chan' = Drop(chan, c)
                  /\ RecvReturns(r, loc[r], log, "ncclInternalError", f, FALSE)
                  /\ UNCHANGED unexpectedConnections
             ELSE IF Matches([peer |-> newPeer.data, tag |-> newTag.data], loc[r].peer, loc[r].tag)
             THEN /\ chan' = Drop(chan, c)
                  /\ RecvReturns(r, loc[r], log,
                                 IF bootstrapNetRecvOk(f, loc[r].size)
                                   THEN "ncclSuccess" ELSE "ncclInternalError", f,
                                 FALSE)
                  /\ UNCHANGED unexpectedConnections
             ELSE /\ chan' = [chan EXCEPT ![c] = << f >>]
                  /\ unexpectedConnections' =
                       [unexpectedConnections EXCEPT
                          ![r] = unexpectedEnqueue(@, newPeer.data, newTag.data, sock)]
                  /\ UNCHANGED << pc, loc, result, log >>
  /\ UNCHANGED << net, child, nranks, abortFlag, listenSock, listenSockRoot, ringSendSocket,
                  ringRecvSocket, peerCommAddresses, peerProxyAddresses, root,
                  allData, mem >>

\* The tags the P2P scenarios use.
Tags == {7, 9}

\* A P2P scenario is a set of at most log.budget messages, each sent by one
\* bootstrapSend call and received by one bootstrapRecv call, the calls made
\* in any order.  log.sent and log.recvs hold the calls made so far; the k-th
\* Send on a channel (from, to, tag) corresponds to the k-th Recv on it.
SendsOn(from, to, tag) ==
  Cardinality({m \in log.sent : m.from = from /\ m.to = to /\ m.tag = tag})
RecvsOn(from, to, tag) ==
  Cardinality({m \in log.recvs : m.from = from /\ m.to = to /\ m.tag = tag})
\* The messages of the scenario so far: those sent, and those only awaited.
Messages ==
  Cardinality(log.sent) +
  Cardinality({m \in log.recvs : m.k > SendsOn(m.from, m.to, m.tag)})
\* A Send on the channel is awaited by a Recv already called, or opens a
\* new message of the scenario.
MaySend(from, to, tag) ==
  SendsOn(from, to, tag) < RecvsOn(from, to, tag) \/ Messages < log.budget
MayRecv(from, to, tag) ==
  RecvsOn(from, to, tag) < SendsOn(from, to, tag) \/ Messages < log.budget

\* The caller of rank r calls bootstrapSend(state, peer, tag, data, size);
\* the data names the message.
SendCall(r) ==
  /\ pc[r] = "ready"
  /\ \E peer \in Ranks \ {r} : \E tag \in Tags :
       /\ MaySend(r, peer, tag)
       /\ Send(r, peer, tag, << r, log.sends[r] + 1 >>, Sizeof("int"))
       /\ result' = [result EXCEPT ![r] = SendResult(r, peer)]
  /\ UNCHANGED << net, child, nranks, pc, loc, abortFlag, listenSock, listenSockRoot,
                  ringSendSocket, ringRecvSocket, peerCommAddresses,
                  peerProxyAddresses, unexpectedConnections, root, allData, mem >>

\* The caller of rank r calls bootstrapRecv(state, peer, tag, data, size):
\* the call searches the unexpected connections at once.
RecvCall(r) ==
  /\ pc[r] = "ready"
  /\ \E peer \in Ranks \ {r} : \E tag \in Tags :
       /\ MayRecv(peer, r, tag)
       /\ Scan(r, [NoLocals EXCEPT !.op = "recv", !.peer = peer, !.tag = tag,
                                   !.size = Sizeof("int")],
               [log EXCEPT !.recvs = @ \cup {[from |-> peer, to |-> r, tag |-> tag,
                                              k |-> RecvsOn(peer, r, tag) + 1]}])
  /\ UNCHANGED << net, child, nranks, abortFlag, listenSock, listenSockRoot, ringSendSocket,
                  ringRecvSocket, peerCommAddresses, peerProxyAddresses, backlog,
                  root, allData, mem >>

\* The sizes a caller of bootstrapSend passes here: less than, as much as
\* and more than the sizeof(int) the receiver expects.
PayloadSizes == {Sizeof("int") - 2, Sizeof("int"), 2 * Sizeof("int")}

\* The caller of rank r calls bootstrapSend(state, peer, tag, data, size)
\* with a size of its choice.
SendSized(r) ==
  /\ pc[r] = "ready"
  /\ \E peer \in Ranks \ {r} : \E tag \in Tags : \E size \in PayloadSizes :
       /\ MaySend(r, peer, tag)
       /\ Send(r, peer, tag, << r, log.sends[r] + 1 >>, size)
       /\ result' = [result EXCEPT ![r] = SendResult(r, peer)]
  /\ UNCHANGED << net, child, nranks, pc, loc, abortFlag, listenSock, listenSockRoot,
                  ringSendSocket, ringRecvSocket, peerCommAddresses,
                  peerProxyAddresses, unexpectedConnections, root, allData, mem >>

\* ------------------------------------------------------- bootstrapBarrier

\* The tag the callers of this model pass to bootstrapBarrier.
BarrierTags == {176}

\* What the uninitialised int data[1] of bootstrapBarrier may hold.
Uninitialised == {0, 1}

\* The argument ranks[]: the group is the whole communicator.
GroupRanks(n) == [i \in 0 .. n - 1 |-> i]

\* The mask of the first round of the loop.
FirstMaskTwo == 1 + 1
FirstMask == 1

\* bootstrapBarrier(state, ranks, rank, nranks, tag) is entered: a single
\* rank returns at once, otherwise the loop starts with mask = 1.
BarrierEnter(r) ==
  /\ pc[r] = "ready"
  /\ r \notin log.entered
  /\ log' = [log EXCEPT !.entered = @ \cup {r}]
  /\ IF nranks = 1
       THEN /\ result' = [result EXCEPT ![r] = "ncclSuccess"]
            /\ UNCHANGED << pc, loc >>
       ELSE /\ \E tag \in BarrierTags : \E v \in Uninitialised :
                 loc' = [loc EXCEPT ![r] = [NoLocals EXCEPT !.op = "barrier", !.i = FirstMask,
                                             !.tag = tag, !.size = Sizeof("int"),
                                             !.data = v]]
            /\ pc' = [pc EXCEPT ![r] = "bar_send"]
            /\ result' = [result EXCEPT ![r] = "none"]
  /\ UNCHANGED << net, child, nranks, abortFlag, listenSock, listenSockRoot, ringSendSocket,
                  ringRecvSocket, peerCommAddresses, peerProxyAddresses,
                  unexpectedConnections, backlog, chan, root, allData, mem >>

\* The caller of rank r, back from a bootstrapBarrier that returned
\* ncclSuccess, calls bootstrapBarrier again with the same group and the
\* same tag.
BarrierAgain(r) ==
  /\ pc[r] = "ready"
  /\ r \in log.entered \ log.again
  /\ result[r] = "ncclSuccess"
  /\ log' = [log EXCEPT !.again = @ \cup {r}]
  /\ IF nranks = 1
       THEN UNCHANGED << pc, loc, result >>
       ELSE /\ \E tag \in BarrierTags : \E v \in Uninitialised :
                 loc' = [loc EXCEPT ![r] = [NoLocals EXCEPT !.op = "barrier", !.i = FirstMask,
                                             !.tag = tag, !.size = Sizeof("int"),
                                             !.data = v]]
            /\ pc' = [pc EXCEPT ![r] = "bar_send"]
            /\ result' = [result EXCEPT ![r] = "none"]
  /\ UNCHANGED << net, child, nranks, abortFlag, listenSock, listenSockRoot, ringSendSocket,
                  ringRecvSocket, peerCommAddresses, peerProxyAddresses,
                  unexpectedConnections, backlog, chan, root, allData, mem >>

\* The bootstrapSend of the round of mask loc.i, to ranks[dst]; the
\* bootstrapRecv that follows is from ranks[src].
BarrierSend(r) ==
  /\ pc[r] = "bar_send"
  /\ LET dst == GroupRanks(nranks)[BarrierDst(r, loc[r].i, nranks)]
         src == GroupRanks(nranks)[BarrierSrc(r, loc[r].i, nranks)]
     IN /\ Send(r, dst, loc[r].tag, loc[r].data, loc[r].size)
        /\ IF SendResult(r, dst) = "ncclSuccess"
             THEN /\ pc' = [pc EXCEPT ![r] = "recv_scan"]
                  /\ loc' = [loc EXCEPT ![r].peer = src]
                  /\ result' = result
             ELSE /\ pc' = [pc EXCEPT ![r] = "ready"]
                  /\ loc' = [loc EXCEPT ![r] = NoLocals]
                  /\ result' = [result EXCEPT ![r] = SendResult(r, dst)]
  /\ UNCHANGED << net, child, nranks, abortFlag, listenSock, listenSockRoot, ringSendSocket,
                  ringRecvSocket, peerCommAddresses, peerProxyAddresses,
                  unexpectedConnections, root, allData, mem >>

\* The contributions a caller may put into its slice (0 marks a slice the
\* caller has not filled).
Contributions == {16, 32}

\* ---------------------------------------------- bootstrapIntraNodeAllGather

\* The arguments ranks[] and nranks of the group's calls: log.group lists
\* the bootstrap ranks of the members 0, 1, ...
IntraRanks(k) == log.group[k + 1]
IntraN == Len(log.group)
\* The argument rank of the member that is bootstrap rank r.
IntraRank(r) == CHOOSE k \in 0 .. IntraN - 1 : IntraRanks(k) = r
IntraMembers == {IntraRanks(k) : k \in 0 .. IntraN - 1}

\* The partners of step i and the slice the received data goes to.
IntraSrc(rank, i, n) == (rank - i + n) % n
IntraDst(rank, i, n) == (rank + i) % n
IntraRecvSliceOwn(rank, i, n) == rank
IntraRecvSlice(rank, i, n) == IntraSrc(rank, i, n)

\* bootstrapIntraNodeAllGather(state, ranks, rank, nranks, allData, size) is
\* entered with the own contribution at slice rank: a single member
\* returns at once, otherwise the loop starts with i = 1.
IntraEnter(r) ==
  /\ pc[r] = "ready"
  /\ r \in IntraMembers
  /\ r \notin log.entered
  /\ \E v \in Contributions :
       /\ allData' = [allData EXCEPT
                        ![r] = [k \in 0 .. IntraN - 1 |-> IF k = IntraRank(r) THEN v ELSE 0]]
       /\ log' = [log EXCEPT !.entered = @ \cup {r}, !.contrib[r] = v]
  /\ IF IntraN = 1
       THEN /\ result' = [result EXCEPT ![r] = "ncclSuccess"]
            /\ UNCHANGED << pc, loc >>
       ELSE /\ loc' = [loc EXCEPT ![r] = [NoLocals EXCEPT !.op = "intra", !.i = 1,
                                                    !.size = Sizeof("int")]]
            /\ pc' = [pc EXCEPT ![r] = "intra_send"]
            /\ result' = [result EXCEPT ![r] = "none"]
  /\ UNCHANGED << net, child, nranks, abortFlag, listenSock, listenSockRoot, ringSendSocket,
                  ringRecvSocket, peerCommAddresses, peerProxyAddresses,
                  unexpectedConnections, backlog, chan, root, mem >>

\* The bootstrapSend of step loc.i: the own slice to ranks[dst] with tag i;
\* the bootstrapRecv that follows is from ranks[src] with tag i.
IntraSend(r) ==
  /\ pc[r] = "intra_send"
  /\ LET rank == IntraRank(r)
         i == loc[r].i
         dst == IntraRanks(IntraDst(rank, i, IntraN))
         src == IntraRanks(IntraSrc(rank, i, IntraN))
     IN /\ Send(r, dst, i, allData[r][rank], loc[r].size)
        /\ IF SendResult(r, dst) = "ncclSuccess"
             THEN /\ pc' = [pc EXCEPT ![r] = "recv_scan"]
                  /\ loc' = [loc EXCEPT ![r].peer = src, ![r].tag = i]
                  /\ result' = result
             ELSE /\ pc' = [pc EXCEPT ![r] = "ready"]
                  /\ loc' = [loc EXCEPT ![r] = NoLocals]
                  /\ result' = [result EXCEPT ![r] = SendResult(r, dst)]
  /\ UNCHANGED << net, child, nranks, abortFlag, listenSock, listenSockRoot, ringSendSocket,
                  ringRecvSocket, peerCommAddresses, peerProxyAddresses,
                  unexpectedConnections, root, allData, mem >>

\* The bootstrapRecv of step loc.i has put its data at data + src*size; the
\* loop's i++ and test i < nranks follow.
IntraStore(r) ==
  /\ pc[r] = "intra_store"
  /\ LET rank == IntraRank(r)
         i == loc[r].i
     IN /\ allData' = [allData EXCEPT ![r][IntraRecvSlice(rank, i, IntraN)] = loc[r].data]
        /\ IF i + 1 < IntraN
             THEN /\ pc' = [pc EXCEPT ![r] = "intra_send"]
                  /\ loc' = [loc EXCEPT ![r].i = i + 1]
                  /\ result' = result
             ELSE /\ pc' = [pc EXCEPT ![r] = "ready"]
                  /\ loc' = [loc EXCEPT ![r] = NoLocals]
                  /\ result' = [result EXCEPT ![r] = "ncclSuccess"]
  /\ UNCHANGED << net, child, nranks, abortFlag, listenSock, listenSockRoot, ringSendSocket,
                  ringRecvSocket, peerCommAddresses, peerProxyAddresses,
                  unexpectedConnections, backlog, chan, root, mem, log >>

\* ---------------------------------------------- bootstrapIntraNodeBroadcast

\* bootstrapIntraNodeBroadcast(state, ranks, rank, nranks, root, bcastData,
\* size) is entered; log.bcastRoot is the argument root.  A single member
\* returns at once; the root starts its loop with i = 0; another member
\* calls bootstrapRecv from ranks[root] with tag ranks[rank].
BcastEnter(r) ==
  /\ pc[r] = "ready"
  /\ r \in IntraMembers
  /\ r \notin log.entered
  /\ IF IntraN = 1
       THEN /\ result' = [result EXCEPT ![r] = "ncclSuccess"]
            /\ log' = [log EXCEPT !.entered = @ \cup {r}]
            /\ UNCHANGED << pc, loc, unexpectedConnections, chan >>
       ELSE IF IntraRank(r) = log.bcastRoot
       THEN /\ \E v \in Contributions :
                 loc' = [loc EXCEPT ![r] = [NoLocals EXCEPT !.op = "bcast", !.i = 0,
                                             !.size = Sizeof("int"), !.data = v]]
            /\ pc' = [pc EXCEPT ![r] = "bcast_send"]
            /\ result' = [result EXCEPT ![r] = "none"]
            /\ log' = [log EXCEPT !.entered = @ \cup {r}]
            /\ UNCHANGED << unexpectedConnections, chan >>
       ELSE Scan(r, [NoLocals EXCEPT !.op = "bcast", !.peer = IntraRanks(log.bcastRoot),
                                     !.tag = r, !.size = Sizeof("int")],
                 [log EXCEPT !.entered = @ \cup {r}])
  /\ UNCHANGED << net, child, nranks, abortFlag, listenSock, listenSockRoot,
                  ringSendSocket, ringRecvSocket, peerCommAddresses,
                  peerProxyAddresses, backlog, root, allData, mem >>

\* One iteration of the root's loop: bootstrapSend to ranks[i] with tag
\* ranks[i] unless i is the root itself, then i++ and the test i < nranks.
BcastSend(r) ==
  /\ pc[r] = "bcast_send"
  /\ LET i == loc[r].i
         dst == IntraRanks(i)
         sends == i # log.bcastRoot
         res == IF sends THEN SendResult(r, dst) ELSE "ncclSuccess"
     IN /\ IF sends THEN Send(r, dst, dst, loc[r].data, loc[r].size)
                    ELSE UNCHANGED << backlog, chan, log >>
        /\ IF res = "ncclSuccess" /\ i + 1 < IntraN
             THEN /\ loc' = [loc EXCEPT ![r].i = i + 1]
                  /\ UNCHANGED << pc, result >>
             ELSE /\ pc' = [pc EXCEPT ![r] = "ready"]
                  /\ loc' = [loc EXCEPT ![r] = NoLocals]
                  /\ result' = [result EXCEPT ![r] = res]
  /\ UNCHANGED << net, child, nranks, abortFlag, listenSock, listenSockRoot,
                  ringSendSocket, ringRecvSocket, peerCommAddresses,
                  peerProxyAddresses, unexpectedConnections, root, allData, mem >>

\* ------------------------------------------------------------ bootstrapSplit

\* The addresses of the child's listenSock and of its proxy socket, and the
\* connection behind the child's ringSendSocket, for the child state on
\* parent rank p.
ChildAddr(p) == << "childcomm", p >>
ChildProxyAddr(p) == << "childproxy", p >>
ChildRingConn(p) == << "childring", p >>

\* The argument parentRanks of parent rank p's call (log.split gives every
\* rank the array of its child group, in the order of the child ranks) and
\* comm->rank, comm->nRanks of the child communicator.
ParentRanks(p) == log.split[p]
ChildRank(p) == CHOOSE k \in 0 .. Len(ParentRanks(p)) - 1 : ParentRanks(p)[k + 1] = p
ChildNRanks(p) == Len(ParentRanks(p))

\* prev and next: the parent ranks of the child's ring neighbours.
SplitNeighboursSwapped(p) ==
  [prev |-> ParentRanks(p)[((ChildRank(p) + 1) % ChildNRanks(p)) + 1],
   next |-> ParentRanks(p)[((ChildRank(p) - 1 + ChildNRanks(p)) % ChildNRanks(p)) + 1]]
SplitNeighbours(p) ==
  [prev |-> ParentRanks(p)[((ChildRank(p) - 1 + ChildNRanks(p)) % ChildNRanks(p)) + 1],
   next |-> ParentRanks(p)[((ChildRank(p) + 1) % ChildNRanks(p)) + 1]]

\* The position after the loop test of a bootstrapAllGather on the child
\* state: the next send, or what follows the AllGather in bootstrapSplit.
ChildAgLoop(i, n, which) ==
  IF i < n - 1 THEN "child_ag_send"
  ELSE IF which = "comm" THEN "split_proxy" ELSE "ready"

\* bootstrapSplit is called on parent rank p: allocate the child state,
\* create listenSock and ringRecvSocket, listen.
SplitEnter(p) ==
  /\ pc[p] = "ready"
  /\ log.split # << >>
  /\ ParentRanks(p) # << >>
  /\ child[p].nranks = 0
  /\ child' = [child EXCEPT ![p] = [NoChild EXCEPT
                                      !.rank = ChildRank(p), !.nranks = ChildNRanks(p),
                                      !.listenSock = ListenSocket(ChildAddr(p), TRUE)]]
  /\ backlog' = (ChildAddr(p) :> << >>) @@ backlog
  /\ pc' = [pc EXCEPT ![p] = "split_send"]
  /\ loc' = [loc EXCEPT ![p] = [NoLocals EXCEPT !.op = "split"]]
  /\ result' = [result EXCEPT ![p] = "none"]
  /\ UNCHANGED << net, nranks, abortFlag, listenSock, listenSockRoot, ringSendSocket,
                  ringRecvSocket, peerCommAddresses, peerProxyAddresses,
                  unexpectedConnections, chan, root, allData, mem, log >>

\* The bootstrapSend of the own listen address to prev over the parent, tag
\* -2; the bootstrapRecv that follows is from next, tag -2.
SplitSend(p) ==
  /\ pc[p] = "split_send"
  /\ LET nb == SplitNeighbours(p)
     IN /\ Send(p, nb.prev, -2, child[p].listenSock.addr, Sizeof("addr"))
        /\ IF SendResult(p, nb.prev) = "ncclSuccess"
             THEN /\ pc' = [pc EXCEPT ![p] = "recv_scan"]
                  /\ loc' = [loc EXCEPT ![p].peer = nb.next, ![p].tag = -2,
                                        ![p].size = Sizeof("addr")]
                  /\ result' = result
             ELSE /\ pc' = [pc EXCEPT ![p] = "ready"]
                  /\ loc' = [loc EXCEPT ![p] = NoLocals]
                  /\ result' = [result EXCEPT ![p] = SendResult(p, nb.prev)]
  /\ UNCHANGED << net, child, nranks, abortFlag, listenSock, listenSockRoot,
                  ringSendSocket, ringRecvSocket, peerCommAddresses,
                  peerProxyAddresses, unexpectedConnections, root, allData, mem >>

\* Connect the child's ringSendSocket to the address received in tmpAddr.
SplitConnect(p) ==
  /\ pc[p] = "split_connect"
  /\ LET tmpAddr == loc[p].data
     IN IF tmpAddr \in DOMAIN backlog
          THEN /\ child' = [child EXCEPT ![p].ringSendSocket =
                                            ConnectedSocket(tmpAddr, ChildRingConn(p), TRUE)]
               /\ backlog' = Connect(backlog, tmpAddr, ChildRingConn(p))
               /\ chan' = (ChildRingConn(p) :> << >>) @@ chan
               /\ pc' = [pc EXCEPT ![p] = "split_accept"]
               /\ UNCHANGED << loc, result >>
          ELSE /\ pc' = [pc EXCEPT ![p] = "ready"]
               /\ loc' = [loc EXCEPT ![p] = NoLocals]
               /\ result' = [result EXCEPT ![p] = "ncclSystemError"]
               /\ UNCHANGED << child, backlog, chan >>
  /\ UNCHANGED << net, nranks, abortFlag, listenSock, listenSockRoot, ringSendSocket,
                  ringRecvSocket, peerCommAddresses, peerProxyAddresses,
                  unexpectedConnections, root, allData, mem, log >>

\* Accept the child ring predecessor on the child's listenSock, allocate the
\* child's peerCommAddresses, store the own listen address at index rank and
\* enter the AllGather on the child state.
SplitAccept(p) ==
  /\ pc[p] = "split_accept"
  /\ Pending(backlog, ChildAddr(p)) # {}
  /\ LET c == child[p]
     IN /\ child' = [child EXCEPT
                       ![p].ringRecvSocket = AcceptedSocket(c.listenSock, Head(backlog[ChildAddr(p)])),
                       ![p].peerCommAddresses =
                          [Calloc(c.nranks) EXCEPT ![c.rank] = c.listenSock.addr]]
        /\ backlog' = Accepted(backlog, ChildAddr(p))
        /\ loc' = [loc EXCEPT ![p].which = "comm", ![p].i = 0]
        /\ pc' = [pc EXCEPT ![p] = ChildAgLoop(0, c.nranks, "comm")]
  /\ UNCHANGED << net, nranks, result, abortFlag, listenSock, listenSockRoot,
                  ringSendSocket, ringRecvSocket, peerCommAddresses,
                  peerProxyAddresses, unexpectedConnections, chan, root, allData,
                  mem, log >>

\* The table the running AllGather on the child state works on.
ChildAgBuffer(p) ==
  IF loc[p].which = "comm" THEN child[p].peerCommAddresses
                           ELSE child[p].peerProxyAddresses

\* The connection of state->ringSendSocket when state is the child state.
ChildSendConnOfParent(p) == ringSendSocket[p].conn
ChildSendConn(p) == child[p].ringSendSocket.conn

\* bootstrapAllGather on the child state: send slice to the right.
ChildAllGatherSend(p) ==
  /\ pc[p] = "child_ag_send"
  /\ LET c == child[p]
         sl == SendSlice(c.rank, loc[p].i, c.nranks)
     IN chan' = bootstrapNetSend(chan, ChildSendConn(p), ChildAgBuffer(p)[sl],
                                 Sizeof("addr"))
  /\ pc' = [pc EXCEPT ![p] = "child_ag_recv"]
  /\ UNCHANGED << net, child, nranks, loc, result, abortFlag, listenSock,
                  listenSockRoot, ringSendSocket, ringRecvSocket, peerCommAddresses,
                  peerProxyAddresses, unexpectedConnections, backlog, root,
                  allData, mem, log >>

\* bootstrapAllGather on the child state: recv slice from the left, then
\* the loop's i++ and test.
ChildAllGatherRecv(p) ==
  /\ pc[p] = "child_ag_recv"
  /\ Readable(child[p].ringRecvSocket.conn)
  /\ LET c == child[p]
         cn == c.ringRecvSocket.conn
         f == Head(chan[cn])
         sl == RecvSlice(c.rank, loc[p].i, c.nranks)
         w == loc[p].which
         ok == bootstrapNetRecvOk(f, Sizeof("addr"))
         next == ChildAgLoop(loc[p].i + 1, c.nranks, w)
     IN /\ chan' = [chan EXCEPT ![cn] = Tail(@)]
        /\ child' = IF ~ok THEN child
                    ELSE IF w = "comm"
                      THEN [child EXCEPT ![p].peerCommAddresses[sl] = f.data]
                      ELSE [child EXCEPT ![p].peerProxyAddresses[sl] = f.data]
        /\ IF ok
             THEN /\ pc' = [pc EXCEPT ![p] = next]
                  /\ loc' = IF next = "ready" THEN [loc EXCEPT ![p] = NoLocals]
                                              ELSE [loc EXCEPT ![p].i = @ + 1]
                  /\ result' = IF next = "ready"
                                 THEN [result EXCEPT ![p] = "ncclSuccess"] ELSE result
             ELSE /\ pc' = [pc EXCEPT ![p] = "ready"]
                  /\ loc' = [loc EXCEPT ![p] = NoLocals]
                  /\ result' = [result EXCEPT ![p] = "ncclInternalError"]
  /\ UNCHANGED << net, nranks, abortFlag, listenSock, listenSockRoot, ringSendSocket,
                  ringRecvSocket, peerCommAddresses, peerProxyAddresses,
                  unexpectedConnections, backlog, root, allData, mem, log >>

\* After the AllGather of the listen addresses: with splitShare the child
\* shares the parent's proxy and bootstrapSplit returns; otherwise allocate
\* peerProxyAddresses, listen on the proxy socket, store its address at
\* index rank and enter the second AllGather.
SplitProxy(p) ==
  /\ pc[p] = "split_proxy"
  /\ LET c == child[p]
         next == IF log.splitShare THEN "ready" ELSE ChildAgLoop(0, c.nranks, "proxy")
     IN /\ child' = IF log.splitShare THEN child
                    ELSE [child EXCEPT ![p].peerProxyAddresses =
                                          [Calloc(c.nranks) EXCEPT ![c.rank] = ChildProxyAddr(p)]]
        /\ backlog' = IF log.splitShare THEN backlog
                      ELSE (ChildProxyAddr(p) :> << >>) @@ backlog
        /\ pc' = [pc EXCEPT ![p] = next]
        /\ loc' = IF next = "ready" THEN [loc EXCEPT ![p] = NoLocals]
                                    ELSE [loc EXCEPT ![p].which = "proxy", ![p].i = 0]
        /\ result' = IF next = "ready" THEN [result EXCEPT ![p] = "ncclSuccess"] ELSE result
  /\ UNCHANGED << net, nranks, abortFlag, listenSock, listenSockRoot, ringSendSocket,
                  ringRecvSocket, peerCommAddresses, peerProxyAddresses,
                  unexpectedConnections, chan, root, allData, mem, log >>

\* bootstrapSend(state, peer, tag, data, size) on the child state of parent
\* rank p: a fresh connection to the child's peerCommAddresses[peer]
\* carrying the child rank, the tag and the data; the caller makes the call
\* once bootstrapSplit has returned ncclSuccess.
ChildSendCall(p) ==
  /\ pc[p] = "ready"
  /\ result[p] = "ncclSuccess"
  /\ child[p].nranks > 0
  /\ Cardinality({m \in log.sent : m.tag \in Tags}) < log.budget
  /\ \E peer \in 0 .. child[p].nranks - 1 : \E tag \in Tags :
       LET addr == child[p].peerCommAddresses[peer]
           c == P2PConn(p, log.sends[p] + 1)
           data == << "payload", p, log.sends[p] + 1 >>
       IN /\ peer # child[p].rank
          /\ IF addr \in DOMAIN backlog
               THEN /\ backlog' = Connect(backlog, addr, c)
                    /\ chan' = (c :> << Frame(child[p].rank, Sizeof("int")),
                                        Frame(tag, Sizeof("int")),
                                        Frame(data, Sizeof("int")) >>) @@ chan
                    /\ log' = [log EXCEPT
                                 !.sends[p] = @ + 1,
                                 !.sent = @ \cup {[from |-> p, to |-> ParentRanks(p)[peer + 1],
                                                  tag |-> tag, data |-> data,
                                                  size |-> Sizeof("int")]}]
                    /\ result' = result
               ELSE /\ result' = [result EXCEPT ![p] = "ncclSystemError"]
                    /\ UNCHANGED << backlog, chan, log >>
  /\ UNCHANGED << net, child, nranks, pc, loc, abortFlag, listenSock, listenSockRoot,
                  ringSendSocket, ringRecvSocket, peerCommAddresses,
                  peerProxyAddresses, unexpectedConnections, root, allData, mem >>

\* ------------------------------------------ bootstrapClose / bootstrapAbort

\* bootstrapClose reports unexpected connections that were never received,
\* unless the communicator is being aborted.
CloseFailsDespiteAbort(r) == unexpectedConnections[r] # << >>
CloseFails(r) == unexpectedConnections[r] # << >> /\ abortFlag[r] = 0

\* The free() calls of bootstrapClose after the sockets are closed.
CloseFrees(m) == [m EXCEPT !.comm = @ + 1, !.state = @ + 1]

\* bootstrapClose(state): free the unexpected list if there is one, return
\* ncclInternalError if the abort flag is 0; otherwise close listenSock,
\* ringSendSocket and ringRecvSocket, free peerCommAddresses and the state.
\* unexpectedFree frees the nodes and leaves the list pointer and the
\* sockets of the nodes as they are.
Close(r) ==
  /\ pc[r] = "ready"
  /\ LET q == unexpectedConnections[r]
         m == [mem[r] EXCEPT !.unex = @ + Len(q)]
     IN IF CloseFails(r)
          THEN /\ mem' = [mem EXCEPT ![r] = m]
               /\ pc' = [pc EXCEPT ![r] = "close_failed"]
               /\ result' = [result EXCEPT ![r] = "ncclInternalError"]
               /\ UNCHANGED << listenSock, ringSendSocket, ringRecvSocket, backlog, chan >>
          ELSE /\ mem' = [mem EXCEPT ![r] = CloseFrees(m)]
               /\ pc' = [pc EXCEPT ![r] = "closed"]
               /\ result' = [result EXCEPT ![r] = "ncclSuccess"]
               /\ listenSock' = [listenSock EXCEPT ![r] = ClosedSocket(@)]
               /\ ringSendSocket' = [ringSendSocket EXCEPT ![r] = ClosedSocket(@)]
               /\ ringRecvSocket' = [ringRecvSocket EXCEPT ![r] = ClosedSocket(@)]
               /\ backlog' = Unlisten(backlog, listenSock[r].addr)
               /\ chan' = Unsent(chan, backlog, listenSock[r].addr)
  /\ UNCHANGED << net, child, nranks, loc, abortFlag, listenSockRoot, peerCommAddresses,
                  peerProxyAddresses, unexpectedConnections, root, allData, log >>

\* The free() calls of bootstrapAbort.
AbortFrees(m) == [m EXCEPT !.comm = @ + 1, !.proxy = @ + 1, !.state = @ + 1]

\* What bootstrapAbort does to the state it is given: close the three
\* sockets, free both tables and the state.
AbortEffects(r) ==
  /\ mem' = [mem EXCEPT ![r] = AbortFrees(@)]
  /\ listenSock' = [listenSock EXCEPT ![r] = ClosedSocket(@)]
  /\ ringSendSocket' = [ringSendSocket EXCEPT ![r] = ClosedSocket(@)]
  /\ ringRecvSocket' = [ringRecvSocket EXCEPT ![r] = ClosedSocket(@)]
  /\ backlog' = Unlisten(backlog, listenSock[r].addr)
  /\ chan' = Unsent(chan, backlog, listenSock[r].addr)
  /\ pc' = [pc EXCEPT ![r] = "aborted"]
  /\ result' = [result EXCEPT ![r] = "ncclSuccess"]

\* bootstrapAbort(state).  The only guard is commState == NULL, and the
\* caller's pointer is not cleared: a call on a state that an earlier call
\* freed reads freed memory.  That is undefined behaviour: the process may
\* crash, or find the old contents and close and free everything again.
Abort(r) ==
  /\ pc[r] \in {"ready", "close_failed", "aborted"}
  /\ log.aborts[r] < MaxAborts
  /\ log' = [log EXCEPT !.aborts[r] = @ + 1]
  /\ IF mem[r].state = 0
       THEN AbortEffects(r)
       ELSE \/ AbortEffects(r)
            \/ /\ pc' = [pc EXCEPT ![r] = "crashed"]
               /\ UNCHANGED << mem, listenSock, ringSendSocket, ringRecvSocket,
                               backlog, chan, result >>
  /\ UNCHANGED << net, child, nranks, loc, abortFlag, listenSockRoot, peerCommAddresses,
                  peerProxyAddresses, unexpectedConnections, root, allData >>

\* ------------------------------------------- specification: tagged P2P

InitP2P ==
  /\ nranks \in 1 .. MaxRanks
  /\ Booted(nranks)
  /\ abortFlag = [r \in Ranks |-> 0]
  /\ log = EmptyLog(nranks)

NextP2P ==
  \/ \E r \in Ranks : SendCall(r)
  \/ \E r \in Ranks : RecvCall(r)
  \/ \E r \in Ranks : RecvAccept(r)

SpecP2P == InitP2P /\ [][NextP2P]_vars

\* ------------------------- specification: P2P traffic and bootstrapClose

InitClose ==
  /\ nranks \in 1 .. MaxRanks
  /\ Booted(nranks)
  /\ abortFlag = [r \in Ranks |-> 0]
  /\ log = [EmptyLog(nranks) EXCEPT !.budget = MaxPending]

NextClose ==
  \/ \E r \in Ranks : SendCall(r)
  \/ \E r \in Ranks : RecvCall(r)
  \/ \E r \in Ranks : RecvAccept(r)
  \/ \E r \in Ranks : SetAbort(r)
  \/ \E r \in Ranks : AbortReturn(r)
  \/ \E r \in Ranks : Close(r)

SpecClose == InitClose /\ [][NextClose]_vars

\* ------------------------------ specification: bootstrapClose / bootstrapAbort

InitTeardown ==
  /\ nranks \in 1 .. MaxRanks
  /\ Booted(nranks)
  /\ abortFlag \in [Ranks -> {0, 1}]
  /\ log = EmptyLog(nranks)

NextTeardown ==
  \/ \E r \in Ranks : Close(r)
  \/ \E r \in Ranks : Abort(r)

SpecTeardown == InitTeardown /\ [][NextTeardown]_vars

\* ------------------------- specification: P2P traffic and bootstrapAbort

NextAbortTraffic ==
  \/ \E r \in Ranks : SendCall(r)
  \/ \E r \in Ranks : RecvCall(r)
  \/ \E r \in Ranks : RecvAccept(r)
  \/ \E r \in Ranks : Abort(r)

SpecAbortTraffic == InitClose /\ [][NextAbortTraffic]_vars

\* ------------------- specification: blocked operations and the abort flag

\* bootstrapInit as in SpecBoot, followed by bootstrapRecv calls for
\* messages that nobody sends.
NextAbort ==
  \/ NextBoot
  \/ \E r \in Ranks : RecvCall(r)

InitAbort ==
  /\ Unbooted
  /\ log = [EmptyLog(nranks) EXCEPT !.budget = MaxWaiting]

SpecAbort == InitAbort /\ [][NextAbort]_vars

\* The root thread and the threads inside bootstrapInit are scheduled
\* fairly, and a blocked socket call that the abort flag cuts short returns.
\* Nothing makes a rank call bootstrapInit or bootstrapRecv, and nothing
\* makes the application set the flag.
\* The next step of the thread of rank r inside bootstrapInit or a blocked
\* socket call.
InitThread(r) ==
  \/ InitRecvNext(r)
  \/ InitAcceptRing(r)
  \/ InitProxy(r)
  \/ AllGatherSend(r)
  \/ AllGatherRecv(r)
  \/ AbortReturn(r)

FairSpecAbort ==
  /\ SpecAbort
  /\ WF_vars(RootAccept \/ RootSend)
  /\ \A r \in 0 .. MaxRanks - 1 : WF_vars(r \in Ranks /\ InitThread(r))

\* ------------------- specification: Send and Recv with sizes that differ

NextFraming ==
  \/ \E r \in Ranks : SendSized(r)
  \/ \E r \in Ranks : RecvCall(r)
  \/ \E r \in Ranks : RecvAccept(r)

SpecFraming == InitClose /\ [][NextFraming]_vars

\* ----------------------- specification: one bootstrapIntraNodeAllGather

\* The groups of a communicator of n ranks: the arrays ranks[] of distinct
\* bootstrap ranks.
Groups(n) ==
  UNION {{g \in [1 .. k -> 0 .. n - 1] : \A a, b \in 1 .. k : a # b => g[a] # g[b]} :
         k \in 1 .. n}

InitIntra ==
  /\ nranks \in 1 .. MaxRanks
  /\ Booted(nranks)
  /\ abortFlag = [r \in Ranks |-> 0]
  /\ \E g \in Groups(nranks) : log = [EmptyLog(nranks) EXCEPT !.group = g]

NextIntra ==
  \/ \E r \in Ranks : IntraEnter(r)
  \/ \E r \in Ranks : IntraSend(r)
  \/ \E r \in Ranks : RecvScan(r)
  \/ \E r \in Ranks : RecvAccept(r)
  \/ \E r \in Ranks : IntraStore(r)

SpecIntra == InitIntra /\ [][NextIntra]_vars

\* ------------------------- specification: threads call bootstrapNetInit

InitNet ==
  /\ Unbooted
  /\ nranks = 1
  /\ log = EmptyLog(nranks)

NextNet ==
  \/ \E t \in Threads : NetCall(t)
  \/ \E t \in Threads : NetLock(t)
  \/ \E t \in Threads : NetSelect(t)
  \/ \E t \in Threads : NetSetDone(t)
  \/ \E t \in Threads : NetUnlock(t)

SpecNet == InitNet /\ [][NextNet]_vars

\* ------------------------------- specification: one bootstrapSplit

\* The ways the ranks of a communicator of n ranks may call bootstrapSplit:
\* every rank is in at most one child group, and all members of a group
\* pass the same array parentRanks.
Splits(n) ==
  {sp \in [0 .. n - 1 -> Groups(n) \cup {<< >>}] :
     \A p \in 0 .. n - 1 :
       sp[p] # << >> =>
         /\ \E k \in 1 .. Len(sp[p]) : sp[p][k] = p
         /\ \A k \in 1 .. Len(sp[p]) : sp[sp[p][k]] = sp[p]}

InitSplit ==
  /\ nranks \in 1 .. MaxRanks
  /\ Booted(nranks)
  /\ abortFlag = [r \in Ranks |-> 0]
  /\ \E sp \in Splits(nranks) \ {[p \in Ranks |-> << >>]} : \E sh \in BOOLEAN :
       log = [EmptyLog(nranks) EXCEPT !.split = sp, !.splitShare = sh]

NextSplit ==
  \/ \E r \in Ranks : SplitEnter(r)
  \/ \E r \in Ranks : SplitSend(r)
  \/ \E r \in Ranks : RecvScan(r)
  \/ \E r \in Ranks : RecvAccept(r)
  \/ \E r \in Ranks : SplitConnect(r)
  \/ \E r \in Ranks : SplitAccept(r)
  \/ \E r \in Ranks : ChildAllGatherSend(r)
  \/ \E r \in Ranks : ChildAllGatherRecv(r)
  \/ \E r \in Ranks : SplitProxy(r)

SpecSplit == InitSplit /\ [][NextSplit]_vars

\* ------------------------------------- specification: one Barrier

InitBarrier ==
  /\ nranks \in 1 .. MaxRanks
  /\ Booted(nranks)
  /\ abortFlag = [r \in Ranks |-> 0]
  /\ log = EmptyLog(nranks)

NextBarrier ==
  \/ \E r \in Ranks : BarrierEnter(r)
  \/ \E r \in Ranks : BarrierSend(r)
  \/ \E r \in Ranks : RecvScan(r)
  \/ \E r \in Ranks : RecvAccept(r)

SpecBarrier == InitBarrier /\ [][NextBarrier]_vars

\* The threads are scheduled fairly once they are inside bootstrapBarrier;
\* nothing makes a caller enter it.
BarrierThread(r) == BarrierSend(r) \/ RecvScan(r) \/ RecvAccept(r)

FairSpecBarrier ==
  /\ SpecBarrier
  /\ \A r \in 0 .. MaxRanks - 1 : WF_vars(r \in Ranks /\ BarrierThread(r))

\* ------------------------- specification: two Barriers, one after the other

NextBarriers ==
  \/ \E r \in Ranks : BarrierEnter(r)
  \/ \E r \in Ranks : BarrierAgain(r)
  \/ \E r \in Ranks : BarrierSend(r)
  \/ \E r \in Ranks : RecvScan(r)
  \/ \E r \in Ranks : RecvAccept(r)

SpecBarriers == InitBarrier /\ [][NextBarriers]_vars

\* ------- specification: bootstrapInit or bootstrapSplit with P2P traffic

\* Either every rank is about to call bootstrapInit, or the ranks of a
\* communicator are about to call bootstrapSplit; a rank whose call has
\* returned calls bootstrapSend on the state the call built, while other
\* ranks may still be inside their call.
InitRing ==
  \/ /\ Unbooted
     /\ log = [EmptyLog(nranks) EXCEPT !.scenario = "init"]
  \/ /\ nranks \in 1 .. MaxRanks
     /\ Booted(nranks)
     /\ abortFlag = [r \in Ranks |-> 0]
     /\ \E sp \in Splits(nranks) \ {[p \in Ranks |-> << >>]} : \E sh \in BOOLEAN :
          log = [EmptyLog(nranks) EXCEPT !.split = sp, !.splitShare = sh,
                                         !.scenario = "split"]

NextRing ==
  \/ log.scenario = "init" /\ RootAccept
  \/ log.scenario = "init" /\ RootSend
  \/ log.scenario = "init" /\ \E r \in Ranks : InitSteps(r)
  \/ log.scenario = "init" /\ \E r \in Ranks : SendCall(r)
  \/ log.scenario = "split" /\ \E r \in Ranks : SplitEnter(r)
  \/ log.scenario = "split" /\ \E r \in Ranks : SplitSend(r)
  \/ log.scenario = "split" /\ \E r \in Ranks : RecvScan(r)
  \/ log.scenario = "split" /\ \E r \in Ranks : RecvAccept(r)
  \/ log.scenario = "split" /\ \E r \in Ranks : SplitConnect(r)
  \/ log.scenario = "split" /\ \E r \in Ranks : SplitAccept(r)
  \/ log.scenario = "split" /\ \E r \in Ranks : ChildAllGatherSend(r)
  \/ log.scenario = "split" /\ \E r \in Ranks : ChildAllGatherRecv(r)
  \/ log.scenario = "split" /\ \E r \in Ranks : SplitProxy(r)
  \/ log.scenario = "split" /\ \E r \in Ranks : ChildSendCall(r)

SpecRing == InitRing /\ [][NextRing]_vars


\* ------------------------------------------------ claims on bootstrapInit

\* Every rank's bootstrapInit has returned ncclSuccess.
AllInitDone == \A r \in Ranks : pc[r] = "ready" /\ result[r] = "ncclSuccess"

\* C2: after all ranks complete Init, on every rank j and for every i,
\* peerCommAddresses[i] is the address of rank i's listenSock and
\* peerProxyAddresses[i] is rank i's proxy listen address.
C2_AddressTables ==
  AllInitDone =>
    \A j \in Ranks : \A i \in Ranks :
      /\ peerCommAddresses[j][i] = listenSock[i].addr
      /\ listenSock[i].st = "listen"
      /\ peerProxyAddresses[j][i] = ProxyAddr(i)
      /\ ProxyAddr(i) \in DOMAIN backlog

C2_Witness == nranks = 3 /\ AllInitDone

\* C3: after all ranks complete Init the ring is well-formed: ringSendSocket
\* of rank i is connected to the listenSock of rank (i+1) mod N, and
\* ringRecvSocket of i is the connection opened by the ringSendSocket of
\* rank (i-1+N) mod N.
C3_RingWellFormed ==
  AllInitDone =>
    \A i \in Ranks :
      /\ ringSendSocket[i].st = "conn"
      /\ ringSendSocket[i].addr = listenSock[(i + 1) % nranks].addr
      /\ ringRecvSocket[i].st = "conn"
      /\ ringRecvSocket[i].conn = ringSendSocket[(i - 1 + nranks) % nranks].conn
      /\ ringRecvSocket[i].addr = listenSock[i].addr

C3_Witness == nranks = 3 /\ AllInitDone /\ ringRecvSocket[0].conn = RingConn(2)

\* bootstrapInit ends in the state the other specifications start from.
InitLeavesBooted == AllInitDone => Booted(nranks)

\* ----------------------------------- specification: one ring AllGather

\* A rank calls bootstrapAllGather(state, allData, size) with its own
\* contribution v at slice rank; with nranks = 1 the loop body never runs.
AllGatherCall(r) ==
  /\ pc[r] = "ready"
  /\ log.contrib[r] = 0
  /\ \E v \in Contributions :
       /\ allData' = [allData EXCEPT ![r] = [i \in Ranks |-> IF i = r THEN v ELSE 0]]
       /\ log' = [log EXCEPT !.contrib[r] = v]
  /\ pc' = [pc EXCEPT ![r] = AgLoop(0, nranks, "user")]
  /\ loc' = IF pc'[r] = "ready"
              THEN loc
              ELSE [loc EXCEPT ![r] = [NoLocals EXCEPT !.op = "allgather", !.which = "user"]]
  /\ result' = IF pc'[r] = "ready" THEN [result EXCEPT ![r] = "ncclSuccess"]
                                   ELSE [result EXCEPT ![r] = "none"]
  /\ UNCHANGED << net, child, nranks, abortFlag, listenSock, listenSockRoot, ringSendSocket,
                  ringRecvSocket, peerCommAddresses, peerProxyAddresses,
                  unexpectedConnections, backlog, chan, root, mem >>

InitAllGather ==
  /\ nranks \in 1 .. MaxRanks
  /\ Booted(nranks)
  /\ abortFlag = [r \in Ranks |-> 0]
  /\ log = EmptyLog(nranks)

NextAllGather ==
  \/ \E r \in Ranks : AllGatherCall(r)
  \/ \E r \in Ranks : AllGatherSend(r)
  \/ \E r \in Ranks : AllGatherRecv(r)

SpecAllGather == InitAllGather /\ [][NextAllGather]_vars

\* Rank j's AllGather call has returned.
AllGatherReturned(j) == log.contrib[j] # 0 /\ pc[j] = "ready"

\* C1: when AllGather returns on rank j, slice i of j's buffer holds rank i's
\* contribution for every i, after nranks-1 send/recv steps; with one rank
\* that is zero steps and the buffer as it was passed in.
C1_AllGather ==
  \A j \in Ranks :
    AllGatherReturned(j) =>
      /\ result[j] = "ncclSuccess"
      /\ \A i \in Ranks : allData[j][i] = log.contrib[i]
      /\ log.ringSends[j] = nranks - 1
      /\ log.ringRecvs[j] = nranks - 1

C1_Witness ==
  /\ nranks = 3
  /\ \A j \in Ranks : AllGatherReturned(j)
  /\ log.contrib = (0 :> 16) @@ (1 :> 32) @@ (2 :> 16)

\* The single-rank case of C1 is reached.
C1_WitnessSingle == nranks = 1 /\ AllGatherReturned(0) /\ allData[0] = (0 :> 32)

\* ------------- specification: one operation of any kind on a communicator

\* What the application runs on the booted communicator: tagged messages,
\* a barrier, an IntraNodeAllGather or IntraNodeBroadcast of a group, a ring
\* AllGather, or a bootstrapSplit.
InitOps ==
  /\ nranks \in 1 .. MaxRanks
  /\ Booted(nranks)
  /\ abortFlag = [r \in Ranks |-> 0]
  /\ \/ log = [EmptyLog(nranks) EXCEPT !.scenario = "p2p", !.budget = MaxPending]
     \/ log = [EmptyLog(nranks) EXCEPT !.scenario = "barrier"]
     \/ log = [EmptyLog(nranks) EXCEPT !.scenario = "allgather"]
     \/ \E g \in Groups(nranks) :
          log = [EmptyLog(nranks) EXCEPT !.scenario = "intra", !.group = g]
     \/ \E g \in Groups(nranks) : \E k \in 0 .. Len(g) - 1 :
          log = [EmptyLog(nranks) EXCEPT !.scenario = "bcast", !.group = g,
                                         !.bcastRoot = k]
     \/ \E sp \in Splits(nranks) \ {[p \in Ranks |-> << >>]} : \E sh \in BOOLEAN :
          log = [EmptyLog(nranks) EXCEPT !.scenario = "split", !.split = sp,
                                         !.splitShare = sh]

NextOps ==
  \/ log.scenario = "p2p" /\ \E r \in Ranks : SendCall(r)
  \/ log.scenario = "p2p" /\ \E r \in Ranks : RecvCall(r)
  \/ \E r \in Ranks : RecvAccept(r)
  \/ \E r \in Ranks : RecvScan(r)
  \/ log.scenario = "barrier" /\ \E r \in Ranks : BarrierEnter(r)
  \/ \E r \in Ranks : BarrierSend(r)
  \/ log.scenario = "allgather" /\ \E r \in Ranks : AllGatherCall(r)
  \/ \E r \in Ranks : AllGatherSend(r)
  \/ \E r \in Ranks : AllGatherRecv(r)
  \/ log.scenario = "intra" /\ \E r \in Ranks : IntraEnter(r)
  \/ \E r \in Ranks : IntraSend(r)
  \/ \E r \in Ranks : IntraStore(r)
  \/ log.scenario = "bcast" /\ \E r \in Ranks : BcastEnter(r)
  \/ \E r \in Ranks : BcastSend(r)
  \/ \E r \in Ranks : SplitEnter(r)
  \/ \E r \in Ranks : SplitSend(r)
  \/ \E r \in Ranks : SplitConnect(r)
  \/ \E r \in Ranks : SplitAccept(r)
  \/ \E r \in Ranks : ChildAllGatherSend(r)
  \/ \E r \in Ranks : ChildAllGatherRecv(r)
  \/ \E r \in Ranks : SplitProxy(r)

SpecOps == InitOps /\ [][NextOps]_vars

\* ------------------------------------------------------------ claims: P2P

\* The messages sent and not yet received by a bootstrapRecv.
Undelivered == {m \in log.sent : \A g \in log.got : g.data # m.data}

\* The bootstrapRecv calls on a channel that have returned.
ReturnedOn(from, to, tag) ==
  Cardinality({g \in log.got : g.at = to /\ g.peer = from /\ g.tag = tag})

\* C5: every message a bootstrapSend(peer = j, tag = t) of rank i sent is
\* received by at most one bootstrapRecv, always one called on rank j with
\* (peer = i, tag = t); every bootstrapRecv that has returned received one
\* such message; once every message sent has been received, the unexpected
\* lists are empty.
C5_TaggedP2P ==
  /\ \A g \in log.got :
       \E m \in log.sent :
         m.data = g.data /\ m.to = g.at /\ m.from = g.peer /\ m.tag = g.tag
  /\ log.twice = {}
  /\ \A m \in log.recvs :
       pc[m.to] = "ready" => ReturnedOn(m.from, m.to, m.tag) >= m.k
  /\ \A r \in Ranks : result[r] \in {"none", "ncclSuccess"}
  /\ Undelivered = {} => \A r \in Ranks : unexpectedConnections[r] = << >>

\* Three messages were sent and received, one of them after it had waited
\* on an unexpected list, and the lists are empty again.
C5_Witness ==
  /\ Cardinality(log.sent) = 3
  /\ Undelivered = {}
  /\ \E g \in log.got : g.parked
  /\ \E g \in log.got : ~g.parked
  /\ \A r \in Ranks : unexpectedConnections[r] = << >>

\* The position of the earliest entry of q for (peer, tag), 0 if none.
EarliestFor(q, peer, tag) ==
  LET hits == {k \in 1 .. Len(q) : q[k].peer = peer /\ q[k].tag = tag}
  IN IF hits = {} THEN 0 ELSE CHOOSE k \in hits : \A j \in hits : k <= j

\* q without its k-th entry, the others in their order.
Without(q, k) == [j \in 1 .. Len(q) - 1 |-> IF j < k THEN q[j] ELSE q[j + 1]]

\* The bootstrapRecv call (from, tag) of rank r that starts in this step.
Called(r) == {m \in log'.recvs \ log.recvs : m.to = r}

\* What C6 means for every step: an unexpected list only changes by an
\* entry appended at its tail while its rank accepts, or by the removal of
\* the earliest entry for the (peer, tag) of a bootstrapRecv that starts,
\* the other entries keeping their order; a bootstrapRecv that starts while
\* the list holds an entry for its (peer, tag) takes that entry and accepts
\* nothing.
C6_Step ==
  \A r \in Ranks :
    LET q == unexpectedConnections[r]
        q2 == unexpectedConnections'[r]
    IN /\ q2 # q =>
            \/ /\ pc[r] = "recv_accept"
               /\ Len(q2) = Len(q) + 1
               /\ SubSeq(q2, 1, Len(q)) = q
               /\ ~(q2[Len(q2)].peer = loc[r].peer /\ q2[Len(q2)].tag = loc[r].tag)
            \/ \E m \in Called(r) :
                 /\ EarliestFor(q, m.from, m.tag) # 0
                 /\ q2 = Without(q, EarliestFor(q, m.from, m.tag))
       /\ \A m \in Called(r) :
            EarliestFor(q, m.from, m.tag) # 0 =>
              /\ q2 = Without(q, EarliestFor(q, m.from, m.tag))
              /\ backlog' = backlog
              /\ pc'[r] = "ready"
              /\ \E g \in log'.got \ log.got :
                   /\ g.parked
                   /\ g.data = chan[q[EarliestFor(q, m.from, m.tag)].sock.conn][1].data

\* What C6 means for every state: a rank that accepts has no entry for the
\* awaited (peer, tag) on its list, and the entries of one (peer, tag) are
\* in the order in which their sender sent them.
C6_ScanFirst ==
  \A r \in Ranks :
    LET q == unexpectedConnections[r]
    IN /\ pc[r] = "recv_accept" => EarliestFor(q, loc[r].peer, loc[r].tag) = 0
       /\ \A j, k \in 1 .. Len(q) :
            (j < k /\ q[j].peer = q[k].peer /\ q[j].tag = q[k].tag) =>
              chan[q[j].sock.conn][1].data[2] < chan[q[k].sock.conn][1].data[2]

\* C6: the unexpected list is first-in first-out.  bootstrapRecv searches
\* it before it accepts, a connection for another (peer, tag) is appended at
\* the tail, and the entry taken is the earliest one for the (peer, tag),
\* the others keeping their order.
C6_UnexpectedFifo == []C6_ScanFirst /\ [][C6_Step]_vars

\* Two entries for one (peer, tag) waited on a list, the earlier was taken
\* by a bootstrapRecv and the later is still there.
C6_Witness ==
  \E r \in Ranks :
    LET q == unexpectedConnections[r]
    IN /\ Len(q) = 1
       /\ \E g \in log.got :
            /\ g.parked /\ g.at = r /\ g.peer = q[1].peer /\ g.tag = q[1].tag
            /\ g.data[2] < chan[q[1].sock.conn][1].data[2]
            /\ \E h \in log.got :
                 h.at = r /\ ~h.parked /\ (h.peer # g.peer \/ h.tag # g.tag)

\* -------------------------------------------------------- claims: Barrier

\* The ranks that have returned from bootstrapBarrier.
BarrierReturned == {r \in log.entered : pc[r] = "ready"}

\* C4: no rank returns from bootstrapBarrier before every rank has entered
\* it (so the others stay blocked as long as one rank has not entered), and
\* once all ranks have entered, all of them return, with ncclSuccess.
C4_NoEarlyReturn == BarrierReturned # {} => log.entered = Ranks
C4_Barrier ==
  /\ []C4_NoEarlyReturn
  /\ (log.entered = Ranks) ~>
       (BarrierReturned = Ranks /\ \A r \in Ranks : result[r] = "ncclSuccess")

\* Three ranks have all entered the barrier and all returned from it.
C4_Witness ==
  /\ nranks = 3
  /\ BarrierReturned = Ranks
  /\ \A r \in Ranks : result[r] = "ncclSuccess"

\* Two of three ranks are inside the barrier, waiting in accept, while the
\* third has not entered.
C4_WitnessBlocked ==
  /\ nranks = 3
  /\ Cardinality(log.entered) = 2
  /\ \A r \in log.entered : pc[r] = "recv_accept" /\ ~Acceptable(listenSock[r].addr)

\* ---------------------------------------------------------- claims: abort

\* Rank r is inside bootstrapInit or bootstrapRecv.
Inside(r) == pc[r] \notin {"start", "ready", "failed"}

\* An operation that returns after its blocked socket call found the abort
\* flag set returns ncclAbortError; bootstrapInit does not return ncclSuccess
\* while a rank has not checked in, and a bootstrapRecv for a message nobody
\* sends does not return ncclSuccess.
C7_AbortError ==
  \A r \in Ranks :
    /\ pc[r] = "failed" => result[r] = "ncclAbortError" /\ abortFlag[r] # 0
    /\ result[r] = "ncclAbortError" => abortFlag[r] # 0
    /\ pc[r] = "ready" => \A s \in Ranks : pc[s] # "start"
    /\ (pc[r] = "ready" /\ \E m \in log.recvs : m.to = r) =>
         result[r] = "ncclAbortError"

\* The abort flag of rank r is set and no operation of r is blocked or running.
Unblocked(r) == IF r \in Ranks THEN abortFlag[r] # 0 => ~Inside(r) ELSE TRUE

\* C7: once the abort flag of a rank is set (it stays set), an operation of
\* that rank does not stay blocked: bootstrapInit waiting for the root or
\* for the ring predecessor while a rank never checks in, and bootstrapRecv
\* waiting in accept for a message nobody sends, return, with ncclAbortError.
C7_AbortUnblocks ==
  /\ []C7_AbortError
  /\ \A r \in 0 .. MaxRanks - 1 : []<>Unblocked(r)

\* bootstrapInit of a rank returned ncclAbortError while another rank never
\* checked in.
C7_Witness ==
  \E r \in Ranks :
    /\ abortFlag[r] # 0
    /\ pc[r] = "failed"
    /\ result[r] = "ncclAbortError"
    /\ \E s \in Ranks : pc[s] = "start"

\* A bootstrapRecv for a message nobody sent returned ncclAbortError.
C7_WitnessRecv ==
  \E r \in Ranks :
    /\ abortFlag[r] # 0
    /\ pc[r] = "ready"
    /\ result[r] = "ncclAbortError"
    /\ \E m \in log.recvs : m.to = r

\* ------------------------------------------------- claims: Close and Abort

\* bootstrapClose of rank r returns in this step.
CloseReturns(r) == pc[r] = "ready" /\ pc'[r] \in {"closed", "close_failed"}

\* What C8 means for every step in which a bootstrapClose returns.
C8_Step ==
  \A r \in Ranks :
    CloseReturns(r) =>
      /\ result'[r] \in {"ncclSuccess", "ncclInternalError"}
      /\ result'[r] = "ncclInternalError" <=>
           (unexpectedConnections[r] # << >> /\ abortFlag[r] = 0)

\* C8: bootstrapClose returns ncclInternalError when it is called with a
\* non-empty unexpected list and abortFlag == 0, and does not return it when
\* the list is empty or the abort flag is set.
C8_CloseError == [][C8_Step]_vars

\* One bootstrapClose found a waiting connection with the flag at 0 and
\* returned ncclInternalError.
C8_Witness ==
  \E r \in Ranks :
    /\ pc[r] = "close_failed"
    /\ result[r] = "ncclInternalError"
    /\ unexpectedConnections[r] # << >>
    /\ abortFlag[r] = 0

\* One bootstrapClose found a waiting connection with the flag set and
\* returned ncclSuccess.
C8_WitnessAborted ==
  \E r \in Ranks :
    /\ pc[r] = "closed"
    /\ result[r] = "ncclSuccess"
    /\ unexpectedConnections[r] # << >>
    /\ abortFlag[r] # 0

\* bootstrapClose of rank r has returned.
Closed(r) == pc[r] \in {"closed", "close_failed"}

\* C9, as the specification states it: after bootstrapClose returns,
\* listenSock, ringSendSocket and ringRecvSocket are closed, and
\* peerCommAddresses, peerProxyAddresses and the state are freed, each
\* exactly once.  The code does not do this: it never frees
\* peerProxyAddresses, and on the ncclInternalError path it returns before
\* it closes or frees anything.
C9_CloseTeardown ==
  \A r \in Ranks :
    Closed(r) =>
      /\ listenSock[r].closes = 1
      /\ ringSendSocket[r].closes = 1
      /\ ringRecvSocket[r].closes = 1
      /\ mem[r].comm = 1
      /\ mem[r].proxy = 1
      /\ mem[r].state = 1

\* What bootstrapClose does do when it returns ncclSuccess.
C9_CloseSuccess ==
  \A r \in Ranks :
    pc[r] = "closed" =>
      /\ listenSock[r].closes = 1
      /\ ringSendSocket[r].closes = 1
      /\ ringRecvSocket[r].closes = 1
      /\ mem[r].comm = 1
      /\ mem[r].state = 1
      /\ mem[r].proxy = 0

\* A bootstrapClose returned ncclSuccess after bootstrapInit, nothing waiting.
C9_Witness ==
  \E r \in Ranks :
    pc[r] = "closed" /\ result[r] = "ncclSuccess" /\ unexpectedConnections[r] = << >>

\* C10, as the specification states it: calling bootstrapAbort again on the
\* same state changes nothing; no socket is closed twice, no table and no
\* state is freed twice.  The code has no guard for this: the second call
\* works on freed memory.
C10_AbortIdempotent ==
  \A r \in Ranks :
    /\ pc[r] # "crashed"
    /\ listenSock[r].closes <= 1
    /\ ringSendSocket[r].closes <= 1
    /\ ringRecvSocket[r].closes <= 1
    /\ mem[r].comm <= 1
    /\ mem[r].proxy <= 1
    /\ mem[r].state <= 1

\* bootstrapAbort was called twice on the state of a rank.
C10_Witness == \E r \in Ranks : log.aborts[r] = 2

\* bootstrapAbort of rank r has returned.
Aborted(r) == pc[r] = "aborted"

\* The sockets of the entries waiting on the unexpected list of rank r.
ParkedSockets(r) ==
  {unexpectedConnections[r][k].sock : k \in 1 .. Len(unexpectedConnections[r])}

\* C11, as the specification states it: after bootstrapAbort returns, no
\* socket of the state is open (listenSock, ringSendSocket, ringRecvSocket
\* and the socket of every entry still on the unexpected list are closed),
\* and both address tables and the state are freed.  The code does not look
\* at the unexpected list: the sockets parked there stay open and their
\* nodes are never freed.
C11_AbortClosesAll ==
  \A r \in Ranks :
    Aborted(r) =>
      /\ listenSock[r].st = "closed"
      /\ ringSendSocket[r].st = "closed"
      /\ ringRecvSocket[r].st = "closed"
      /\ \A sk \in ParkedSockets(r) : sk.st = "closed"
      /\ mem[r].comm >= 1 /\ mem[r].proxy >= 1 /\ mem[r].state >= 1

\* What bootstrapAbort does close and free.
C11_AbortClosesOwn ==
  \A r \in Ranks :
    Aborted(r) =>
      /\ listenSock[r].st = "closed"
      /\ ringSendSocket[r].st = "closed"
      /\ ringRecvSocket[r].st = "closed"
      /\ mem[r].comm >= 1 /\ mem[r].proxy >= 1 /\ mem[r].state >= 1
      /\ mem[r].unex = 0

\* bootstrapAbort returned on a rank with a connection still parked.
C11_Witness ==
  \E r \in Ranks : Aborted(r) /\ log.aborts[r] = 1 /\ unexpectedConnections[r] # << >>

\* ------------------------------------------------- C12: duplicate check-in

\* The extInfo the root's next accept will receive.
NextCheckIn == Head(chan[Head(backlog[HandleAddr])]).data

\* The root is in phase A, has stored a check-in, and the next check-in is
\* a well-formed one with the same rank count for a slot already filled.
DuplicateArrives ==
  /\ root.pc = "collect"
  /\ root.c > 0
  /\ Acceptable(HandleAddr)
  /\ NextCheckIn.nranks = root.nranks
  /\ root.rankAddressesRoot[NextCheckIn.rank] # ZeroAddr

C12_Step ==
  (DuplicateArrives /\ root' # root) =>
     /\ root'.pc = "done"
     /\ root'.rankAddresses = root.rankAddresses
     /\ root'.rankAddressesRoot = root.rankAddressesRoot
     /\ root'.c = root.c
     /\ root'.sent = << >>

\* A root that ended on the duplicate's path never sends.
C12_NoSend ==
  root.warn = "already" => root.pc = "done" /\ root.r = 0 /\ root.sent = << >>

\* C12: when a rank index whose slot is filled checks in again during phase
\* A, the root terminates, the addresses stored for that rank stay as they
\* were, and the root sends no successor address to any rank.
C12_DuplicateCheckIn == []C12_NoSend /\ [][C12_Step]_vars

\* The root has ended on a duplicate after it stored at least one check-in.
C12_Witness ==
  root.warn = "already" /\ root.c >= 1 /\ root.pc = "done" /\ log.stray = 1

\* ------------------------------------------------ C18: rank-count mismatch

\* The root is in phase A, has taken the rank count from a first check-in,
\* and the next check-in is a well-formed one with another rank count.
MismatchArrives ==
  /\ root.pc = "collect"
  /\ root.c > 0
  /\ Acceptable(HandleAddr)
  /\ NextCheckIn.nranks # root.nranks

C18_Step ==
  (MismatchArrives /\ root' # root) =>
     /\ root'.pc = "done"
     /\ root'.rankAddresses = root.rankAddresses
     /\ root'.rankAddressesRoot = root.rankAddressesRoot
     /\ root'.c = root.c
     /\ root'.nranks = root.nranks
     /\ root'.sent = << >>
     /\ root'.listenClosed = 1
     /\ root'.freed = 1
     /\ HandleAddr \notin DOMAIN backlog'

\* A root that ended on the mismatch path has sent nothing, and has closed
\* its listening socket and freed its tables once.
C18_Ended ==
  root.warn = "mismatch" =>
     /\ root.pc = "done" /\ root.r = 0 /\ root.sent = << >>
     /\ root.listenClosed = 1 /\ root.freed = 1
     /\ HandleAddr \notin DOMAIN backlog

\* C18: when a check-in after the first one reports another nranks than the
\* first, the root terminates without storing it and without sending a
\* successor address, and closes its listening socket and frees its
\* tables.
C18_RankCountMismatch == []C18_Ended /\ [][C18_Step]_vars

\* The root has ended on a mismatch after it stored at least one check-in.
C18_Witness ==
  root.warn = "mismatch" /\ root.c >= 1 /\ root.pc = "done" /\ log.stray = 1

\* ------------------------------------------------ C17: phase B of the root

\* What the root has sent so far is what phase B sends for ranks 0, 1, ...
\* in this order: to rank r the comm address rank (r+1) % nranks reported.
\* It has sent nothing before it accepted nranks check-ins.
C17_InOrder ==
  /\ root.sent # << >> => root.c = root.nranks /\ root.pc \in {"distribute", "done"}
  /\ Len(root.sent) = root.r
  /\ root.pc = "collect" => root.r = 0
  /\ \A k \in 1 .. Len(root.sent) :
       root.sent[k] = << k - 1, CommAddr(k % root.nranks) >>

\* A step of phase B that serves rank r opens one connection that did not
\* exist, at the root-callback address rank r reported, and puts exactly
\* one frame on it: the comm address of rank (r+1) % nranks.
C17_Step ==
  (root.pc = "distribute" /\ root'.r # root.r) =>
     LET r == root.r
         c == RootConn(r)
     IN /\ root'.r = r + 1
        /\ root.c = root.nranks
        /\ c \notin DOMAIN chan
        /\ chan' = (c :> << Frame(CommAddr((r + 1) % root.nranks), Sizeof("addr")) >>) @@ chan
        /\ root.rankAddressesRoot[r] = RootCbAddr(r)
        /\ backlog'[RootCbAddr(r)] = Append(backlog[RootCbAddr(r)], c)
        /\ \A a \in DOMAIN backlog' \ {RootCbAddr(r)} : backlog'[a] = backlog[a]

\* C17: the root sends no successor address until exactly nranks check-ins
\* have been accepted; then it serves the ranks in the order 0 .. nranks-1,
\* each with exactly one message, the comm address rank (r+1) mod nranks
\* reported, over a fresh connection to rank r's root-callback address.
C17_PhaseBOrder == []C17_InOrder /\ [][C17_Step]_vars

\* The root has served every one of three ranks.
C17_Witness ==
  nranks = 3 /\ root.pc = "done" /\ Len(root.sent) = 3 /\ root.c = 3

\* ---------------------------------------------------- C20: Init terminates

\* The root served every rank and ended, and bootstrapInit returned
\* ncclSuccess on every rank.
C20_Done ==
  /\ root.pc = "done" /\ root.warn = "none" /\ root.r = nranks
  /\ AllInitDone

\* Neither the root nor a rank has failed.
C20_NoFailure ==
  /\ root.warn = "none"
  /\ root.pc = "done" => root.r = nranks
  /\ \A r \in Ranks : pc[r] # "failed" /\ result[r] \in {"none", "ncclSuccess"}

\* C20: when N ranks with distinct ranks all call Init with the same handle
\* and nranks = N, the root and every rank's Init terminate successfully
\* under fair scheduling, whatever the order of the check-ins: ring
\* formation and the AllGather steps do not deadlock.
C20_InitLiveness == []C20_NoFailure /\ <>[]C20_Done

\* Three ranks have all returned from Init and the root has ended.
C20_Witness == nranks = 3 /\ C20_Done

\* ------------------------------------------------------------ C19: framing

\* The size every bootstrapRecv of the scenario expects.
Expected == Sizeof("int")

\* The messages sent with more bytes than the receiver expects.
Oversized == {m \in log.sent : m.size > Expected}

\* The connection message m was sent on.
ConnOf(m) == P2PConn(m.from, m.data[2])

\* Every bootstrapRecv that returned ncclSuccess delivered the payload of a
\* message sent to it with its peer and tag, no longer than expected, and
\* read min(received, expected) bytes of it.
C19_Delivered ==
  \A g \in log.got :
    \E m \in log.sent :
      /\ m.data = g.data /\ m.to = g.at /\ m.from = g.peer /\ m.tag = g.tag
      /\ m \notin Oversized
      /\ g.read = IF m.size <= Expected THEN m.size ELSE Expected

\* The bootstrapRecv that takes an oversized message off its socket returns
\* ncclInternalError, delivers nothing and closes the socket.
C19_Step ==
  \A m \in Oversized :
    (ConnOf(m) \in DOMAIN chan /\ ConnOf(m) \notin DOMAIN chan') =>
       /\ \E e \in log'.failed \ log.failed :
            /\ e.at = m.to /\ e.peer = m.from /\ e.tag = m.tag /\ e.data = m.data
            /\ e.res = "ncclInternalError"
       /\ result'[m.to] = "ncclInternalError"
       /\ pc'[m.to] = "ready"
       /\ log'.got = log.got

\* C19: a framed receive whose length prefix exceeds the expected size
\* returns ncclInternalError without delivering payload, otherwise it reads
\* min(received, expected) bytes; a sender that writes more than the
\* receiver expects causes an error on that bootstrapRecv and never
\* changes what a later bootstrapRecv delivers.
C19_Framing == []C19_Delivered /\ [][C19_Step]_vars

\* A bootstrapRecv failed on an oversized message and a later bootstrapRecv
\* of the same rank delivered a shorter message in full.
C19_Witness ==
  \E e \in log.failed : \E g \in log.got :
    /\ g.at = e.at
    /\ e.before = 0
    /\ g.read < Expected
    /\ \E m \in Oversized : m.data = e.data

\* --------------------------------------------- C15: IntraNodeAllGather

\* Every member of the group has called and has returned ncclSuccess.
IntraReturned ==
  \A r \in IntraMembers :
    r \in log.entered /\ pc[r] = "ready" /\ result[r] = "ncclSuccess"

\* The messages the steps 1 .. nranks-1 of all members exchange: member m
\* sends its own slice to member (m+i) mod nranks with tag i.
IntraTraffic ==
  {[from |-> IntraRanks(m), to |-> IntraRanks((m + i) % IntraN), tag |-> i,
    data |-> log.contrib[IntraRanks(m)], size |-> Sizeof("int")] :
      m \in 0 .. IntraN - 1, i \in 1 .. IntraN - 1}

\* What the members received: member m from member (m-i) mod nranks, tag i.
IntraReceipts ==
  {[at |-> IntraRanks(m), peer |-> IntraRanks((m - i + IntraN) % IntraN), tag |-> i] :
      m \in 0 .. IntraN - 1, i \in 1 .. IntraN - 1}

\* C15: when every member of a group has called IntraNodeAllGather with its
\* own contribution at slice rank and all have returned, slice j of every
\* member holds member j's contribution; step i sent the own slice to
\* member (rank+i) mod nranks and received from member (rank-i) mod nranks
\* with tag i; and every member's unexpected list is empty.
C15_IntraAllGather ==
  /\ log.sent \subseteq IntraTraffic
  /\ IntraReturned =>
       /\ \A r \in IntraMembers : \A j \in 0 .. IntraN - 1 :
            allData[r][j] = log.contrib[IntraRanks(j)]
       /\ log.sent = IntraTraffic
       /\ {[at |-> g.at, peer |-> g.peer, tag |-> g.tag] : g \in log.got} = IntraReceipts
       /\ \A r \in IntraMembers : unexpectedConnections[r] = << >>

\* A group of three members in another order than their bootstrap ranks
\* has returned, one message having waited on an unexpected list, with
\* contributions that differ.
C15_Witness ==
  /\ IntraN = 3 /\ IntraRanks(0) # 0
  /\ IntraReturned
  /\ \E g \in log.got : g.parked
  /\ \E a, b \in IntraMembers : log.contrib[a] # log.contrib[b]

\* ------------------------------------------------------ C16: NetInit once

\* The selection has succeeded at most once, and a call that began after a
\* successful call had returned has not selected and, once it has
\* returned, has returned ncclSuccess.
C16_Once ==
  /\ net.selected <= 1
  /\ net.done = 1 => net.selected = 1
  /\ \A t \in Threads :
       net.call[t].after =>
          /\ ~net.call[t].ran
          /\ net.pc[t] = "idle" => net.res[t] = "ncclSuccess"

\* Once the flag is set, the flag and the cached name and address stay.
C16_Step ==
  net.done = 1 =>
     /\ net'.done = 1
     /\ net'.ifName = net.ifName /\ net'.ifAddr = net.ifAddr
     /\ net'.selected = net.selected

\* C16: in every interleaving of concurrent bootstrapNetInit calls the
\* selection succeeds at most once, the cached name and address never
\* change once the done flag is set, and every call made after a successful
\* one returns ncclSuccess without selecting again.
C16_NetInitOnce == []C16_Once /\ [][C16_Step]_vars

\* Two threads passed the unlocked test before either had selected; one
\* selected, the other found the flag set under the mutex; a later call
\* returned at the unlocked test.
C16_Witness ==
  /\ net.selected = 1 /\ net.done = 1
  /\ \E t, u \in Threads :
       /\ t # u
       /\ net.pc[t] = "idle" /\ net.pc[u] = "idle"
       /\ net.call[u].locked /\ ~net.call[u].ran /\ ~net.call[u].after
       /\ net.res[u] = "ncclSuccess"
       /\ net.call[t].after /\ ~net.call[t].locked /\ net.res[t] = "ncclSuccess"

\* ------------------------------------------------------- C13: split ring

\* The ranks that call bootstrapSplit, and those of them in p's group.
Splitting == {p \in Ranks : ParentRanks(p) # << >>}
GroupOf(p) == {ParentRanks(p)[k] : k \in 1 .. Len(ParentRanks(p))}

\* bootstrapSplit has returned ncclSuccess on parent rank p.
SplitReturned(p) ==
  child[p].nranks > 0 /\ pc[p] = "ready" /\ result[p] = "ncclSuccess"

\* The parent rank of child rank k in p's group.
Member(p, k) == ParentRanks(p)[k + 1]

\* The neighbour exchange of all callers: each sends its child listen
\* address to the parent rank of its child predecessor with tag -2.
SplitTraffic(ps) ==
  {[from |-> p,
    to |-> Member(p, (ChildRank(p) - 1 + ChildNRanks(p)) % ChildNRanks(p)),
    tag |-> -2, data |-> ChildAddr(p), size |-> Sizeof("addr")] : p \in ps}
\* What they receive: from the parent rank of the child successor, tag -2.
SplitReceipts(ps) ==
  {[at |-> p, peer |-> Member(p, (ChildRank(p) + 1) % ChildNRanks(p)), tag |-> -2,
    data |-> ChildAddr(Member(p, (ChildRank(p) + 1) % ChildNRanks(p)))] : p \in ps}

\* The child ring and table of a group whose members have all returned.
C13_Ring(p) ==
  LET n == ChildNRanks(p)
      r == ChildRank(p)
      succ == Member(p, (r + 1) % n)
      pred == Member(p, (r - 1 + n) % n)
  IN /\ child[p].rank = r /\ child[p].nranks = n
     /\ child[p].listenSock = ListenSocket(ChildAddr(p), TRUE)
     /\ child[p].ringSendSocket.st = "conn"
     /\ child[p].ringSendSocket.addr = child[succ].listenSock.addr
     /\ child[p].ringRecvSocket.st = "conn"
     /\ child[p].ringRecvSocket.conn = child[pred].ringSendSocket.conn
     /\ child[p].ringRecvSocket.addr = child[p].listenSock.addr
     /\ \A i \in 0 .. n - 1 :
          child[p].peerCommAddresses[i] = child[Member(p, i)].listenSock.addr
     /\ SplitTraffic(GroupOf(p)) \subseteq log.sent
     /\ \A g \in SplitReceipts(GroupOf(p)) :
          \E h \in log.got : h.at = g.at /\ h.peer = g.peer /\ h.tag = g.tag /\ h.data = g.data
     /\ \A q \in GroupOf(p) : unexpectedConnections[q] = << >>

\* C13: when all members of a child group have completed bootstrapSplit
\* over a running parent, child rank r's ringSendSocket is connected to the
\* child listenSock of child rank (r+1) mod n, its ringRecvSocket comes from
\* child rank (r-1+n) mod n, the child's peerCommAddresses[i] is child rank
\* i's child listen address; the exchange was a parent Send to
\* parentRanks[(r-1+n) mod n] and a parent Recv from parentRanks[(r+1) mod n]
\* with tag -2, and the parent's unexpected lists are empty.
C13_SplitRing ==
  /\ log.sent \subseteq SplitTraffic(Splitting)
  /\ \A h \in log.got : \E g \in SplitReceipts(Splitting) :
       h.at = g.at /\ h.peer = g.peer /\ h.tag = g.tag /\ h.data = g.data
  /\ \A p \in Splitting :
       (\A q \in GroupOf(p) : SplitReturned(q)) => C13_Ring(p)

\* A child group of three ranks, in another order than their parent ranks,
\* has completed bootstrapSplit.
C13_Witness ==
  \E p \in Splitting :
    /\ ChildNRanks(p) = 3
    /\ Member(p, 0) # 0
    /\ \A q \in GroupOf(p) : SplitReturned(q)

\* Two child groups of one parent have completed bootstrapSplit.
C13_WitnessTwoGroups ==
  \E p, q \in Splitting :
    /\ GroupOf(p) # GroupOf(q)
    /\ \A x \in GroupOf(p) \cup GroupOf(q) : SplitReturned(x)

\* ------------------------------------------ C14: ring-socket exclusivity

\* The step neither changes a ring socket of the communicator nor sends or
\* receives on one.
RingUntouched ==
  /\ ringSendSocket' = ringSendSocket
  /\ ringRecvSocket' = ringRecvSocket
  /\ \A r \in Ranks : chan'[RingConn(r)] = chan[RingConn(r)]

\* The step changes no connection but sc, on which it sends one frame, and
\* rc, from which it receives one frame.
OnlyOn(sc, rc) ==
  /\ DOMAIN chan' = DOMAIN chan
  /\ \A c \in DOMAIN chan :
       chan'[c] # chan[c] =>
          \/ c = sc /\ Len(chan'[c]) = Len(chan[c]) + 1
                    /\ SubSeq(chan'[c], 1, Len(chan[c])) = chan[c]
          \/ c = rc /\ chan[c] # << >> /\ chan'[c] = Tail(chan[c])

\* The step accepts no connection and leaves the listening sockets and the
\* unexpected lists as they are.
NoAccept ==
  /\ backlog' = backlog
  /\ listenSock' = listenSock
  /\ unexpectedConnections' = unexpectedConnections
  /\ \A p \in Ranks : child'[p].listenSock = child[p].listenSock

\* The sockets of the child states stay as they are.
ChildSocketsKept ==
  \A p \in Ranks :
    /\ child'[p].ringSendSocket = child[p].ringSendSocket
    /\ child'[p].ringRecvSocket = child[p].ringRecvSocket

\* A step of Send, Recv, Barrier, IntraNodeAllGather or IntraNodeBroadcast.
C14_TaggedStep ==
  log.scenario \in {"p2p", "barrier", "intra", "bcast"} =>
     RingUntouched /\ child' = child

\* A step of the ring AllGather of rank r on the communicator's state.
C14_AllGatherStep ==
  log.scenario = "allgather" =>
     \A r \in Ranks :
       pc'[r] # pc[r] /\ pc[r] \in {"ag_send", "ag_recv"} =>
          /\ OnlyOn(ringSendSocket[r].conn, ringRecvSocket[r].conn)
          /\ NoAccept
          /\ ringSendSocket' = ringSendSocket /\ ringRecvSocket' = ringRecvSocket

\* A step of bootstrapSplit on parent rank p: the parent's ring is not
\* touched, and a step of the AllGather on the child state transfers on the
\* child's own two ring sockets only.
C14_SplitStep ==
  log.scenario = "split" =>
     /\ RingUntouched
     /\ \A p \in Ranks :
          pc'[p] # pc[p] /\ pc[p] \in {"child_ag_send", "child_ag_recv"} =>
             /\ OnlyOn(child[p].ringSendSocket.conn, child[p].ringRecvSocket.conn)
             /\ NoAccept
             /\ ChildSocketsKept

\* C14: Send, Recv, Barrier, IntraNodeAllGather and IntraNodeBroadcast never
\* send or receive on the ring sockets and leave them unchanged; AllGather
\* transfers only on the two ring sockets of the state it is given, never
\* accepts on listenSock and never changes unexpectedConnections; an
\* AllGather on a child created by bootstrapSplit never touches the
\* parent's ring sockets or another child's.
C14_RingExclusive ==
  [][C14_TaggedStep /\ C14_AllGatherStep /\ C14_SplitStep]_vars

\* Two child groups of one parent exist, and the AllGather on the child
\* states of one of them has run to the end on all its members.
C14_Witness ==
  /\ log.scenario = "split"
  /\ \E p, q \in Splitting :
       /\ GroupOf(p) # GroupOf(q)
       /\ ChildNRanks(p) >= 2
       /\ child[q].nranks > 0
       /\ \A x \in GroupOf(p) : SplitReturned(x)

\* Tagged messages, a barrier, a group AllGather, a group broadcast and a
\* ring AllGather have each run to the end.
C14_WitnessTagged ==
  /\ log.scenario = "intra" /\ IntraN = 3 /\ IntraReturned
C14_WitnessAllGather ==
  /\ log.scenario = "allgather" /\ nranks = 3
  /\ \A r \in Ranks : log.contrib[r] # 0 /\ pc[r] = "ready"
C14_WitnessBcast ==
  /\ log.scenario = "bcast" /\ IntraN = 3
  /\ \A r \in IntraMembers : r \in log.entered /\ pc[r] = "ready" /\ result[r] = "ncclSuccess"
  /\ Cardinality(log.got) = 2

\* ------------------------------------------------------------ claims: C22

\* C22: every return from bootstrapNetInit, the failing returns included,
\* leaves bootstrapNetLock unlocked: no thread that is back from a call
\* holds the mutex, so a later call by any thread gets the lock.
C22_ReturnsUnlocked ==
  \A t \in Threads : net.pc[t] = "idle" => net.holder # t

\* ------------------------------------------------------------ claims: C23

\* The ranks that have returned from their second bootstrapBarrier.
BarrierReturnedAgain == {r \in log.again : pc[r] = "ready"}

\* C23: when the ranks run two bootstrapBarrier calls with the same tag one
\* after the other, no rank returns from the second before every rank has
\* entered the second, and once every rank is back from the second, with
\* ncclSuccess, every unexpectedConnections list is empty.
C23_BackToBack ==
  /\ BarrierReturnedAgain # {} => log.again = Ranks
  /\ BarrierReturnedAgain = Ranks =>
       \A r \in Ranks : result[r] = "ncclSuccess" /\ unexpectedConnections[r] = << >>

\* Three ranks are back from both barriers, and a rank received from its
\* round-1 partner a connection that had been parked: the partner's first
\* connection is the one the rank's first bootstrapRecv waits for, so the
\* parked one is the partner's second-barrier connection, accepted while the
\* rank was still receiving in the first barrier.
C23_Witness ==
  /\ nranks = 3
  /\ BarrierReturnedAgain = Ranks
  /\ \E g \in log.got : g.parked /\ g.peer = BarrierSrc(g.at, FirstMask, nranks)

\* A rank that already received its round-1 partner's first connection is
\* still inside the first barrier, and the partner, inside its second
\* barrier, has a connection parked on the rank's list.
C23_WitnessParked ==
  /\ nranks = 3
  /\ \E s \in log.entered \ log.again :
       /\ pc[s] = "recv_accept"
       /\ \E k \in DOMAIN unexpectedConnections[s] :
            LET p == unexpectedConnections[s][k].peer
            IN /\ p \in log.again
               /\ \E g \in log.got : g.at = s /\ g.peer = p

\* ------------------------------------------------------------ claims: C21

\* The ring predecessor of rank r among n ranks.
RingPredecessor(r, n) == (r - 1 + n) % n

\* The parent rank of the ring predecessor of parent rank p in p's child
\* communicator.
ChildPredecessor(p) ==
  ParentRanks(p)[RingPredecessor(ChildRank(p), ChildNRanks(p)) + 1]

\* The tagged P2P connections waiting on the listener at addr.
PendingP2P(addr) == {c \in Pending(backlog, addr) : c[1] = "p2p"}

\* The connection in bootstrapInit's ringRecvSocket is the one behind the
\* ringSendSocket of the ring predecessor, and a tagged P2P connection
\* reaches a listenSock only after its rank accepted the predecessor.
C21_Init ==
  \A r \in Ranks :
    /\ ringRecvSocket[r] # ZeroSock =>
         /\ ringRecvSocket[r].conn = RingConn(RingPredecessor(r, nranks))
         /\ ringRecvSocket[r].conn = ringSendSocket[RingPredecessor(r, nranks)].conn
    /\ PendingP2P(listenSock[r].addr) # {} => ringRecvSocket[r] # ZeroSock

\* The same for the child state that bootstrapSplit builds.
C21_Split ==
  \A p \in Ranks :
    /\ child[p].ringRecvSocket # ZeroSock =>
         /\ child[p].ringRecvSocket.conn = ChildRingConn(ChildPredecessor(p))
         /\ child[p].ringRecvSocket.conn = child[ChildPredecessor(p)].ringSendSocket.conn
    /\ PendingP2P(child[p].listenSock.addr) # {} => child[p].ringRecvSocket # ZeroSock

\* C21: in bootstrapInit and in bootstrapSplit the connection a rank accepts
\* from its listenSock into ringRecvSocket is the ringSendSocket connection
\* of its ring predecessor, and no tagged P2P connection is opened to a
\* rank's listenSock before the rank has accepted its ring predecessor.
C21_RingAccept == C21_Init /\ C21_Split

\* Of three ranks one is still inside bootstrapInit, after its ring accept,
\* and a rank that is back from bootstrapInit has opened a tagged P2P
\* connection to its listenSock.
C21_Witness ==
  /\ nranks = 3
  /\ \E r \in Ranks :
       /\ loc[r].op = "init"
       /\ pc[r] \notin {"ready", "failed"}
       /\ ringRecvSocket[r].conn = RingConn(RingPredecessor(r, nranks))
       /\ PendingP2P(listenSock[r].addr) # {}

\* Of a child communicator of three ranks one rank is still inside
\* bootstrapSplit, after its ring accept, and a rank that is back from
\* bootstrapSplit has opened a tagged P2P connection to the child listenSock.
C21_WitnessSplit ==
  \E p \in Ranks :
    /\ child[p].nranks = 3
    /\ pc[p] # "ready"
    /\ child[p].ringRecvSocket.conn = ChildRingConn(ChildPredecessor(p))
    /\ PendingP2P(child[p].listenSock.addr) # {}

====
